---- MODULE Spec2Model ----
(***************************************************************************)
(* Fantasy-stocks game (src/app.py): the persisted game record             *)
(* (game_data.json), the game history (game_history.json) and the request  *)
(* handlers /start, /draft, /trade, /game and /new_game that load, mutate  *)
(* and save the record.  A handler that raises (HTTP 500) never reaches    *)
(* save_data, so it leaves the persisted record as it was.                 *)
(*                                                                         *)
(* Strings that the code normalises (tickers, player names) are sequences  *)
(* of one-character strings, so that upper() and strip() are computed.     *)
(* Timestamps are whole days; None is the empty tuple, a present value x   *)
(* is <<x>>.  Percentages and volatilities are exact rationals [n, d];     *)
(* values rounded to 2 decimals are integers counting hundredths.          *)
(*                                                                         *)
(* Beside the game: get_snake_order (snake), fetch_stock_info with its     *)
(* retries (fetch), and the price cache stock_cache.json with its clock in *)
(* seconds and the last price lookup (cache, clock, lookup).               *)
(***************************************************************************)
EXTENDS Integers, Sequences, FiniteSets, TLC

VARIABLES data, history, now, snake, fetch, cache, clock, lookup, race, score

vars == <<data, history, now, snake, fetch, cache, clock, lookup, race, score>>

-----------------------------------------------------------------------------
(* Values *)

None == <<>>
Some(x) == <<x>>
(* a lookup that yields no value; a value x that it yields is <<x>> *)
Unavailable == <<>>

ann == <<"a", "n", "n">>
bob == <<"b", "o", "b">>
zed == <<"z", "e", "d">>
dee == <<"d", "e", "e">>
tickA == <<"A">>
tickB == <<"B">>

Range(s) == {s[i] : i \in 1..Len(s)}

NoDup(s) == \A i, j \in 1..Len(s) : s[i] = s[j] => i = j

-----------------------------------------------------------------------------
(* str.upper() and str.strip() *)

UpperChar(c) ==
    CASE c = "a" -> "A"
      [] c = "b" -> "B"
      [] OTHER -> c

Upper(s) == [i \in 1..Len(s) |-> UpperChar(s[i])]

RECURSIVE LStrip(_)
LStrip(s) == IF s # <<>> /\ Head(s) = " " THEN LStrip(Tail(s)) ELSE s

RECURSIVE RStrip(_)
RStrip(s) ==
    IF s # <<>> /\ s[Len(s)] = " " THEN RStrip(SubSeq(s, 1, Len(s) - 1)) ELSE s

Strip(s) == RStrip(LStrip(s))

(* mutation: the ticker is trimmed but its case is kept *)
NormalizeTickerKeepingCase(raw) == Strip(raw)

(* request.form['ticker'].upper().strip() *)
NormalizeTicker(raw) == Strip(Upper(raw))

-----------------------------------------------------------------------------
(* Python list and dict operations.  A dict is the sequence of its          *)
(* [k, v] items in insertion order.                                         *)

RECURSIVE IndexOf(_, _)
IndexOf(s, x) ==
    IF s = <<>> THEN 0
    ELSE IF Head(s) = x THEN 1
    ELSE LET r == IndexOf(Tail(s), x) IN IF r = 0 THEN 0 ELSE r + 1

RemoveAt(s, i) == SubSeq(s, 1, i - 1) \o SubSeq(s, i + 1, Len(s))

ListRemove(s, x) == RemoveAt(s, IndexOf(s, x))

DictKeys(d) == [i \in 1..Len(d) |-> d[i].k]

DictHas(d, key) == \E i \in 1..Len(d) : d[i].k = key

DictGet(d, key) == d[IndexOf(DictKeys(d), key)].v

DictSet(d, key, val) ==
    IF DictHas(d, key)
    THEN [i \in 1..Len(d) |-> IF d[i].k = key THEN [k |-> key, v |-> val] ELSE d[i]]
    ELSE Append(d, [k |-> key, v |-> val])

DictGetOr(d, key, default) == IF DictHas(d, key) THEN DictGet(d, key) ELSE default

-----------------------------------------------------------------------------
(* fetch_stock_info.  An answer is what one stock.history() call does: a    *)
(* last close (0 is falsy), an empty frame, an HTTPError with its status    *)
(* code, or another exception.  answers[k] is the answer to the k-th call.  *)
(* The result gives the info returned (or None), the calls made and the     *)
(* delays slept, in order.                                                  *)

max_retries == 5

initial_delay == 10

RateLimitStatus == 429

(* mutation: the delay grows by initial_delay per attempt *)
BackoffDelayLinear(attempt) == initial_delay * (attempt + 1)

(* delay = initial_delay * (2 ** attempt) *)
BackoffDelay(attempt) == initial_delay * (2 ^ attempt)

(* mutation: every HTTP error is retried *)
RECURSIVE FetchFromRetryingHttpErrors(_, _)
FetchFromRetryingHttpErrors(answers, attempt) ==
    IF attempt >= max_retries
    THEN [info |-> None, calls |-> 0, sleeps |-> <<>>]
    ELSE LET answer == answers[attempt + 1]
             returns(info) == [info |-> info, calls |-> 1, sleeps |-> <<>>]
             rest == FetchFromRetryingHttpErrors(answers, attempt + 1)
         IN CASE answer.kind = "empty" -> returns(None)
              [] answer.kind = "close" ->
                    returns(IF answer.value # 0
                            THEN Some([currentPrice |-> answer.value]) ELSE None)
              [] answer.kind = "http" /\ attempt < max_retries - 1 ->
                    [info |-> rest.info, calls |-> rest.calls + 1,
                     sleeps |-> <<BackoffDelay(attempt)>> \o rest.sleeps]
              [] OTHER -> returns(None)

(* the loop from `attempt` on *)
RECURSIVE FetchFrom(_, _)
FetchFrom(answers, attempt) ==
    IF attempt >= max_retries
    THEN [info |-> None, calls |-> 0, sleeps |-> <<>>]
    ELSE LET answer == answers[attempt + 1]
             returns(info) == [info |-> info, calls |-> 1, sleeps |-> <<>>]
             rest == FetchFrom(answers, attempt + 1)
         IN CASE answer.kind = "empty" -> returns(None)
              [] answer.kind = "close" ->
                    returns(IF answer.value # 0
                            THEN Some([currentPrice |-> answer.value]) ELSE None)
              [] /\ answer.kind = "http" /\ answer.value = RateLimitStatus
                 /\ attempt < max_retries - 1 ->
                    [info |-> rest.info, calls |-> rest.calls + 1,
                     sleeps |-> <<BackoffDelay(attempt)>> \o rest.sleeps]
              [] OTHER -> returns(None)

fetch_stock_info(answers) == FetchFrom(answers, 0)

RECURSIVE SumSeq(_)
SumSeq(s) == IF s = <<>> THEN 0 ELSE Head(s) + SumSeq(Tail(s))

-----------------------------------------------------------------------------
(* The price cache (stock_cache.json): a dict from ticker to the info and   *)
(* the time.time() of its storing, in seconds.                              *)

cache_duration == 21600

(* mutation: an entry as old as cache_duration is still served *)
get_cached_stock_info_inclusive(c, ticker, t) ==
    LET key == Upper(ticker)
    IN IF DictHas(c, key) /\ t - DictGet(c, key).timestamp <= cache_duration
       THEN Some(DictGet(c, key).info) ELSE None

get_cached_stock_info(c, ticker, t) ==
    LET key == Upper(ticker)
    IN IF DictHas(c, key) /\ t - DictGet(c, key).timestamp < cache_duration
       THEN Some(DictGet(c, key).info) ELSE None

(* mutation: overwriting keeps the timestamp of the entry *)
cache_stock_info_keeping_timestamp(c, ticker, info, t) ==
    LET key == Upper(ticker)
    IN DictSet(c, key, [info |-> info,
                        timestamp |-> IF DictHas(c, key)
                                      THEN DictGet(c, key).timestamp ELSE t])

cache_stock_info(c, ticker, info, t) ==
    DictSet(c, Upper(ticker), [info |-> info, timestamp |-> t])

(* mutation: when the fetch fails, an expired entry is served *)
LookupPriceFallingBack(ticker, answers) ==
    LET cached == get_cached_stock_info(cache, ticker, clock)
        fetched == fetch_stock_info(answers)
        t == clock + SumSeq(fetched.sleeps)
        key == Upper(ticker)
    IN IF cached # None
       THEN /\ lookup' = [ticker |-> ticker, at |-> clock, calls |-> 0,
                           price |-> Some(cached[1].currentPrice)]
            /\ UNCHANGED <<cache, clock>>
       ELSE /\ lookup' = [ticker |-> ticker, at |-> clock, calls |-> fetched.calls,
                           price |-> IF fetched.info # None
                                     THEN Some(fetched.info[1].currentPrice)
                                     ELSE IF DictHas(cache, key)
                                     THEN Some(DictGet(cache, key).info.currentPrice)
                                     ELSE Unavailable]
            /\ cache' = IF fetched.info # None
                        THEN cache_stock_info(cache, ticker, fetched.info[1], t)
                        ELSE cache
            /\ clock' = t

(* the price lookup of draft(), calculate_points() and game(): the cache,   *)
(* then the quote source, whose price is stored.  The clock moves by what   *)
(* the fetch slept.                                                         *)
LookupPrice(ticker, answers) ==
    LET cached == get_cached_stock_info(cache, ticker, clock)
        fetched == fetch_stock_info(answers)
        t == clock + SumSeq(fetched.sleeps)
    IN IF cached # None
       THEN /\ lookup' = [ticker |-> ticker, at |-> clock, calls |-> 0,
                           price |-> Some(cached[1].currentPrice)]
            /\ UNCHANGED <<cache, clock>>
       ELSE /\ lookup' = [ticker |-> ticker, at |-> clock, calls |-> fetched.calls,
                           price |-> IF fetched.info # None
                                     THEN Some(fetched.info[1].currentPrice)
                                     ELSE Unavailable]
            /\ cache' = IF fetched.info # None
                        THEN cache_stock_info(cache, ticker, fetched.info[1], t)
                        ELSE cache
            /\ clock' = t

-----------------------------------------------------------------------------
(* load_data's default record *)

BlankRecord ==
    [players |-> <<>>, draft_order |-> <<>>, picks |-> <<>>, status |-> "setup",
     all_picks |-> <<>>, time_frame |-> None, start_date |-> None,
     end_date |-> None, trades |-> <<>>, milestones |-> <<>>,
     trade_limits |-> <<>>]

(* no order has been asked for *)
NoSnake == [players |-> <<>>, total_rounds |-> 0, order |-> None]

(* no fetch has been asked for *)
NoFetch == [answers |-> <<>>, outcome |-> None]

(* two callers, neither of which has loaded anything *)
Callers == {1, 2}

Idle == [pc |-> "idle", op |-> None, local |-> None, stale |-> FALSE, wrote |-> FALSE]

NoRace == [orig |-> None, callers |-> [p \in Callers |-> Idle], last |-> 0, again |-> 0]

(* nothing has been scored *)
NoScore == [picks |-> <<>>, q |-> <<>>, hv |-> <<>>,
            points |-> None, gain |-> None, vol |-> None]

(* no price has been looked up *)
NoLookup == [ticker |-> <<>>, at |-> 0, calls |-> 0, price |-> Unavailable]

Init ==
    /\ data = BlankRecord
    /\ history = <<>>
    /\ now = 0
    /\ snake = NoSnake
    /\ fetch = NoFetch
    /\ cache = <<>>
    /\ clock = 0
    /\ lookup = NoLookup
    /\ race = NoRace
    /\ score = NoScore

-----------------------------------------------------------------------------
(* datetime: a timestamp counts hours from midnight of the Epoch date;      *)
(* isoformat()/fromisoformat() round-trip a datetime exactly.               *)

Epoch == [year |-> 2023, month |-> 1, day |-> 1]

Days(n) == n * 24

(* timedelta.days: whole days, rounded towards minus infinity *)
DeltaDays(delta) == delta \div 24

IsLeap(y) == y % 4 = 0 /\ (y % 100 # 0 \/ y % 400 = 0)

DaysInYear(y) == IF IsLeap(y) THEN 366 ELSE 365

DaysInMonth(y, m) ==
    IF m = 2 THEN (IF IsLeap(y) THEN 29 ELSE 28)
    ELSE IF m \in {4, 6, 9, 11} THEN 30 ELSE 31

RECURSIVE DaysBeforeYear(_)
DaysBeforeYear(y) ==
    IF y <= Epoch.year THEN 0 ELSE DaysBeforeYear(y - 1) + DaysInYear(y - 1)

RECURSIVE DaysBeforeMonth(_, _)
DaysBeforeMonth(y, m) ==
    IF m <= 1 THEN 0 ELSE DaysBeforeMonth(y, m - 1) + DaysInMonth(y, m - 1)

(* datetime(y, m, d): midnight of that date *)
DateTime(y, m, d) == Days(DaysBeforeYear(y) + DaysBeforeMonth(y, m) + (d - 1))

RECURSIVE YearOfDay(_, _)
YearOfDay(y, n) == IF n < DaysInYear(y) THEN y ELSE YearOfDay(y + 1, n - DaysInYear(y))

RECURSIVE MonthOfDay(_, _, _)
MonthOfDay(y, m, n) ==
    IF n < DaysInMonth(y, m) THEN m ELSE MonthOfDay(y, m + 1, n - DaysInMonth(y, m))

(* the .year, .month and .day of a timestamp at or after the Epoch *)
DateOf(t) ==
    LET n == t \div 24
        y == YearOfDay(Epoch.year, n)
        inYear == n - DaysBeforeYear(y)
        m == MonthOfDay(y, 1, inYear)
    IN [year |-> y, month |-> m, day |-> inYear - DaysBeforeMonth(y, m) + 1]

get_time_frame_dates(time_frame, start, custom_days) ==
    CASE time_frame = "1 Quarter" -> start + Days(90)
      [] time_frame = "6 Months" -> start + Days(180)
      [] time_frame = "Fiscal Year" ->
            LET s == DateOf(start)
                year == IF s.month > 6 \/ (s.month = 6 /\ s.day > 30)
                        THEN s.year + 1 ELSE s.year
            IN DateTime(year, 6, 30)
      [] time_frame = "Calendar Year" ->
            LET s == DateOf(start)
                end_date == start + Days(365)
                e == DateOf(end_date)
            IN IF s.month <= 2 /\ e.month >= 3 /\ IsLeap(e.year)
               THEN end_date + Days(1) ELSE end_date
      [] time_frame = "Custom" /\ custom_days # None /\ custom_days # Some(0) ->
            start + Days(custom_days[1])
      [] OTHER -> start

-----------------------------------------------------------------------------
(* get_snake_order *)

Reverse(s) == [i \in 1..Len(s) |-> s[Len(s) + 1 - i]]

RECURSIVE SnakeFrom(_, _, _)
SnakeFrom(players, i, total_rounds) ==
    IF i >= total_rounds THEN <<>>
    ELSE (IF i % 2 = 0 THEN players ELSE Reverse(players))
         \o SnakeFrom(players, i + 1, total_rounds)

(* mutation: every round runs forward *)
get_snake_order_forward(players, total_rounds) ==
    [k \in 1..(Len(players) * total_rounds) |-> players[((k - 1) % Len(players)) + 1]]

get_snake_order(players, total_rounds) == SnakeFrom(players, 0, total_rounds)

-----------------------------------------------------------------------------
(* /start *)

TimeFrames == {"1 Quarter", "6 Months", "Fiscal Year", "Calendar Year", "Custom"}

PickCounts == {"1", "5", "10"}

IntOf(s) == CASE s = "1" -> 1 [] s = "5" -> 5 [] s = "10" -> 10

TradeLimit == 3

Inf == [k |-> "inf", v |-> 0]
NegInf == [k |-> "-inf", v |-> 0]
Fin(x) == [k |-> "fin", v |-> x]

(* the record start() saves for a form that passes its checks *)
NewGame(names, picks_text, time_frame, custom_days, t) ==
    LET num_picks == IF picks_text \in PickCounts THEN picks_text ELSE "5"
        players == [i \in 1..Len(names) |->
                       [name |-> names[i], max |-> IntOf(num_picks), picked |-> <<>>]]
        end_date == get_time_frame_dates(time_frame, t, custom_days)
        duration == DeltaDays(end_date - t)
        milestone1 == t + Days(duration \div 3)
        milestone2 == t + Days((2 * duration) \div 3)
    IN [players |-> players,
        draft_order |-> get_snake_order(names, IntOf(num_picks)),
        picks |-> <<>>,
        status |-> "draft",
        all_picks |-> <<>>,
        time_frame |-> Some(time_frame),
        start_date |-> Some(t),
        end_date |-> Some(end_date),
        trades |-> <<>>,
        milestones |-> <<
            [time |-> milestone1, type |-> "highest_gain",
             winner |-> None, value |-> Fin(0)],
            [time |-> milestone2, type |-> "lowest_volatility",
             winner |-> None, value |-> Inf] >>,
        trade_limits |-> [i \in 1..Len(names) |-> [k |-> names[i], v |-> TradeLimit]]]

(* mutation: a name that occurs twice is let through *)
StartAllowingDuplicates(form) ==
    LET time_frame == IF form.time_frame \in TimeFrames
                      THEN form.time_frame ELSE "1 Quarter"
        present == Len(form.names) >= form.num_players
        names == [i \in 1..form.num_players |-> Strip(form.names[i])]
        accepted ==
            /\ form.num_players >= 2 /\ form.num_players <= 12
            /\ ~(time_frame = "Custom" /\ form.custom_days = None)
            /\ ~(time_frame = "Custom" /\ form.custom_days # None
                 /\ (form.custom_days[1] < 30 \/ form.custom_days[1] > 730))
            /\ present
            /\ \A i \in 1..form.num_players : names[i] # <<>>
    IN /\ data' = IF accepted
                  THEN NewGame(names, form.num_picks, time_frame, form.custom_days, now)
                  ELSE data
       /\ UNCHANGED <<history, now>>

(* form: num_players, num_picks, time_frame, custom_days, names (the        *)
(* player1..playerN fields, raw)                                            *)
Start(form) ==
    LET time_frame == IF form.time_frame \in TimeFrames
                      THEN form.time_frame ELSE "1 Quarter"
        present == Len(form.names) >= form.num_players
        names == [i \in 1..form.num_players |-> Strip(form.names[i])]
        accepted ==
            /\ form.num_players >= 2 /\ form.num_players <= 12
            /\ ~(time_frame = "Custom" /\ form.custom_days = None)
            /\ ~(time_frame = "Custom" /\ form.custom_days # None
                 /\ (form.custom_days[1] < 30 \/ form.custom_days[1] > 730))
            /\ present
            /\ \A i \in 1..form.num_players : names[i] # <<>>
            /\ NoDup(names)
    IN /\ data' = IF accepted
                  THEN NewGame(names, form.num_picks, time_frame, form.custom_days, now)
                  ELSE data
       /\ UNCHANGED <<history, now>>

-----------------------------------------------------------------------------
(* Numbers.  A float is an exact rational [k, n, d] with d > 0, or an       *)
(* infinity; round(x, 2) gives [k, v] with v counting hundredths.           *)

Rat(n, d) == [k |-> "fin", n |-> n, d |-> d]
InfR == [k |-> "inf", n |-> 0, d |-> 1]
NegInfR == [k |-> "-inf", n |-> 0, d |-> 1]

(* the std() of fewer than two returns *)
NaNR == [k |-> "nan", n |-> 0, d |-> 1]

Less(a, b) ==
    CASE a.k = "nan" \/ b.k = "nan" -> FALSE
      [] a.k = "-inf" -> b.k # "-inf"
      [] a.k = "inf" -> FALSE
      [] OTHER -> b.k = "inf" \/ (b.k = "fin" /\ a.n * b.d < b.n * a.d)

RatAdd(a, b) ==
    IF a.k = "nan" \/ b.k = "nan" THEN NaNR
    ELSE Rat(a.n * b.d + b.n * a.d, a.d * b.d)

RoundHalfEven(n, d) ==
    LET q == n \div d
        r == n - q * d
    IN IF 2 * r < d THEN q
       ELSE IF 2 * r > d THEN q + 1
       ELSE IF q % 2 = 0 THEN q ELSE q + 1

Round2(x) ==
    CASE x.k = "inf" -> Inf
      [] x.k = "-inf" -> NegInf
      [] OTHER -> Fin(RoundHalfEven(x.n * 100, x.d))

(* ((current - price) / price) * 100 *)
PctChange(current, price) == Rat((current - price) * 100, price)

-----------------------------------------------------------------------------
(* POST /draft.  current is what the price lookup (cache, then quote        *)
(* source) resolves for the ticker: a price or Unavailable.                 *)

AppendPicked(players, name, ticker) ==
    [i \in 1..Len(players) |->
        IF players[i].name = name
        THEN [players[i] EXCEPT !.picked = Append(players[i].picked, ticker)]
        ELSE players[i]]

(* mutation: the ticker is registered before its price is looked up *)
PickedRegisteringFirst(d, name, raw_ticker, current, t) ==
    LET ticker == NormalizeTicker(raw_ticker)
        pick == [ticker |-> ticker, price |-> current[1], time |-> t]
        registered == [d EXCEPT !.all_picks = Append(d.all_picks, ticker)]
        raises == name \notin Range(d.draft_order)
    IN IF ticker = <<>> \/ ticker \in Range(d.all_picks) THEN d
       ELSE IF current = Unavailable THEN registered
       ELSE IF raises THEN d
       ELSE [registered EXCEPT
                !.picks = DictSet(d.picks, name,
                              Append(DictGetOr(d.picks, name, <<>>), pick)),
                !.players = AppendPicked(d.players, name, ticker),
                !.draft_order = ListRemove(d.draft_order, name)]

(* mutation: the player stays in the draft queue *)
PickedLeavingQueue(d, name, raw_ticker, current, t) ==
    LET ticker == NormalizeTicker(raw_ticker)
        pick == [ticker |-> ticker, price |-> current[1], time |-> t]
        rejected == \/ ticker = <<>>
                    \/ ticker \in Range(d.all_picks)
                    \/ current = Unavailable
        raises == name \notin Range(d.draft_order)
        saved == [d EXCEPT
                    !.picks = DictSet(d.picks, name,
                                  Append(DictGetOr(d.picks, name, <<>>), pick)),
                    !.all_picks = Append(d.all_picks, ticker),
                    !.players = AppendPicked(d.players, name, ticker)]
    IN IF rejected \/ raises THEN d ELSE saved

(* the record POST /draft leaves behind when it loaded d at time t *)
Picked(d, name, raw_ticker, current, t) ==
    LET ticker == NormalizeTicker(raw_ticker)
        pick == [ticker |-> ticker, price |-> current[1], time |-> t]
        rejected == \/ ticker = <<>>
                    \/ ticker \in Range(d.all_picks)
                    \/ current = Unavailable
        (* list.remove raises ValueError when the name is not in the queue *)
        raises == name \notin Range(d.draft_order)
        saved == [d EXCEPT
                    !.picks = DictSet(d.picks, name,
                                  Append(DictGetOr(d.picks, name, <<>>), pick)),
                    !.all_picks = Append(d.all_picks, ticker),
                    !.players = AppendPicked(d.players, name, ticker),
                    !.draft_order = ListRemove(d.draft_order, name)]
    IN IF rejected \/ raises THEN d ELSE saved

DraftPost(name, raw_ticker, current) ==
    /\ data' = Picked(data, name, raw_ticker, current, now)
    /\ UNCHANGED <<history, now>>

(* GET /draft: an empty queue marks the record done; otherwise the page     *)
(* (and an optional preview) is rendered from the record as it is.          *)
DraftGet ==
    /\ data' = IF data.draft_order = <<>> THEN [data EXCEPT !.status = "done"] ELSE data
    /\ UNCHANGED <<history, now>>

-----------------------------------------------------------------------------
(* POST /trade *)

(* mutation: the quota is not looked at *)
TradeInvalidIgnoringQuota(d, from_player, to_player) == from_player = to_player

(* mutation: a player may propose to themselves *)
TradeInvalidAllowingSelf(d, from_player, to_player) ==
    DictGetOr(d.trade_limits, from_player, 0) <= 0

TradeInvalid(d, from_player, to_player) ==
    \/ from_player = to_player
    \/ DictGetOr(d.trade_limits, from_player, 0) <= 0

(* mutation: identifiers count from 0 *)
NextTradeIdFromZero(d) == Len(d.trades)

NextTradeId(d) == Len(d.trades) + 1

(* mutation: a proposal is taken in any phase *)
ProposeInAnyPhase(from_player, to_player, offer_ticker, request_ticker) ==
    LET trade == [id |-> NextTradeId(data), from_player |-> from_player,
                  to_player |-> to_player, offer_ticker |-> offer_ticker,
                  request_ticker |-> request_ticker, status |-> "pending"]
        raises == ~DictHas(data.trade_limits, from_player)
        saved == [data EXCEPT
                    !.trades = Append(data.trades, trade),
                    !.trade_limits = DictSet(data.trade_limits, from_player,
                                         DictGet(data.trade_limits, from_player) - 1)]
    IN /\ data' = IF TradeInvalid(data, from_player, to_player) \/ raises
                  THEN data ELSE saved
       /\ UNCHANGED <<history, now>>

(* the record POST /trade (propose) leaves behind when it loaded d *)
Proposed(d, from_player, to_player, offer_ticker, request_ticker) ==
    LET trade == [id |-> NextTradeId(d), from_player |-> from_player,
                  to_player |-> to_player, offer_ticker |-> offer_ticker,
                  request_ticker |-> request_ticker, status |-> "pending"]
        (* trade_limits[from_player] -= 1 raises KeyError for an unknown key *)
        raises == ~DictHas(d.trade_limits, from_player)
        saved == [d EXCEPT
                    !.trades = Append(d.trades, trade),
                    !.trade_limits = DictSet(d.trade_limits, from_player,
                                         DictGet(d.trade_limits, from_player) - 1)]
    IN IF d.status # "done" \/ TradeInvalid(d, from_player, to_player) \/ raises
       THEN d ELSE saved

Propose(from_player, to_player, offer_ticker, request_ticker) ==
    /\ data' = Proposed(data, from_player, to_player, offer_ticker, request_ticker)
    /\ UNCHANGED <<history, now>>

PickTickers(picks) == [i \in 1..Len(picks) |-> picks[i].ticker]

(* mutation: only the proposer's picked list is updated *)
SwapPickedOfProposerOnly(players, trade) ==
    [i \in 1..Len(players) |->
        IF players[i].name = trade.from_player
        THEN [players[i] EXCEPT !.picked =
                 Append(ListRemove(players[i].picked, trade.offer_ticker),
                        trade.request_ticker)]
        ELSE players[i]]

SwapPicked(players, trade) ==
    [i \in 1..Len(players) |->
        IF players[i].name = trade.from_player
        THEN [players[i] EXCEPT !.picked =
                 Append(ListRemove(players[i].picked, trade.offer_ticker),
                        trade.request_ticker)]
        ELSE IF players[i].name = trade.to_player
        THEN [players[i] EXCEPT !.picked =
                 Append(ListRemove(players[i].picked, trade.request_ticker),
                        trade.offer_ticker)]
        ELSE players[i]]

(* the lookups of an accepted trade that raise (KeyError, StopIteration,    *)
(* ValueError) before save_data is reached                                  *)
SwapRaises(d, trade) ==
    \/ ~DictHas(d.picks, trade.from_player)
    \/ ~DictHas(d.picks, trade.to_player)
    \/ trade.offer_ticker \notin Range(PickTickers(DictGet(d.picks, trade.from_player)))
    \/ trade.request_ticker \notin Range(PickTickers(DictGet(d.picks, trade.to_player)))
    \/ \E i \in 1..Len(d.players) :
          \/ /\ d.players[i].name = trade.from_player
             /\ trade.offer_ticker \notin Range(d.players[i].picked)
          \/ /\ d.players[i].name = trade.to_player
             /\ d.players[i].name # trade.from_player
             /\ trade.request_ticker \notin Range(d.players[i].picked)

(* mutation: the offered pick is handed over but not removed from its owner *)
SwapPicksKeepingOffered(d, trade) ==
    LET from_picks == DictGet(d.picks, trade.from_player)
        to_picks == DictGet(d.picks, trade.to_player)
        fi == IndexOf(PickTickers(from_picks), trade.offer_ticker)
        ti == IndexOf(PickTickers(to_picks), trade.request_ticker)
        picks1 == DictSet(d.picks, trade.from_player, Append(from_picks, to_picks[ti]))
        picks2 == DictSet(picks1, trade.to_player,
                      Append(RemoveAt(to_picks, ti), from_picks[fi]))
    IN [d EXCEPT !.picks = picks2, !.players = SwapPicked(d.players, trade)]

(* mutation: the two picks exchange their tickers and stay where they are *)
SwapPicksExchangingTickers(d, trade) ==
    LET from_picks == DictGet(d.picks, trade.from_player)
        to_picks == DictGet(d.picks, trade.to_player)
        fi == IndexOf(PickTickers(from_picks), trade.offer_ticker)
        ti == IndexOf(PickTickers(to_picks), trade.request_ticker)
        picks1 == DictSet(d.picks, trade.from_player,
                      Append(RemoveAt(from_picks, fi),
                             [from_picks[fi] EXCEPT !.ticker = trade.request_ticker]))
        picks2 == DictSet(picks1, trade.to_player,
                      Append(RemoveAt(to_picks, ti),
                             [to_picks[ti] EXCEPT !.ticker = trade.offer_ticker]))
    IN [d EXCEPT !.picks = picks2, !.players = SwapPicked(d.players, trade)]

SwapPicks(d, trade) ==
    LET from_picks == DictGet(d.picks, trade.from_player)
        to_picks == DictGet(d.picks, trade.to_player)
        fi == IndexOf(PickTickers(from_picks), trade.offer_ticker)
        ti == IndexOf(PickTickers(to_picks), trade.request_ticker)
        from_pick == from_picks[fi]
        to_pick == to_picks[ti]
        picks1 == DictSet(d.picks, trade.from_player,
                      Append(RemoveAt(from_picks, fi), to_pick))
        picks2 == DictSet(picks1, trade.to_player,
                      Append(RemoveAt(to_picks, ti), from_pick))
    IN [d EXCEPT !.picks = picks2, !.players = SwapPicked(d.players, trade)]

FindTrade(trades, trade_id) ==
    IndexOf([i \in 1..Len(trades) |-> trades[i].id], trade_id)

(* mutation: the status is saved although the swap raised *)
RespondSavingStatusFirst(trade_id, response) ==
    LET ti == FindTrade(data.trades, trade_id)
        trade == data.trades[ti]
        marked == [data EXCEPT !.trades[ti].status = response]
    IN /\ data' = IF data.status # "done" \/ ti = 0 THEN data
                  ELSE IF response # "accepted" THEN marked
                  ELSE IF SwapRaises(data, trade) THEN marked
                  ELSE SwapPicks(marked, trade)
       /\ UNCHANGED <<history, now>>

(* the record POST /trade (respond) leaves behind when it loaded d *)
Responded(d, trade_id, response) ==
    LET ti == FindTrade(d.trades, trade_id)
        trade == d.trades[ti]
        marked == [d EXCEPT !.trades[ti].status = response]
    IN IF d.status # "done" \/ ti = 0 THEN d
       ELSE IF response # "accepted" THEN marked
       ELSE IF SwapRaises(d, trade) THEN d
       ELSE SwapPicks(marked, trade)

Respond(trade_id, response) ==
    /\ data' = Responded(data, trade_id, response)
    /\ UNCHANGED <<history, now>>

(* GET /trade: outside phase done the answer is a redirect to the game      *)
(* view; in phase done the page is rendered from the record as it is.       *)
TradeGet ==
    /\ data' = data
    /\ UNCHANGED <<history, now>>

-----------------------------------------------------------------------------
(* Scoring.  q maps a ticker to what the price lookup resolves during the   *)
(* request (a price or Unavailable); hv maps a ticker to the annualised     *)
(* volatility of its history over the window, or Unavailable when the       *)
(* series is empty or the download fails.                                   *)

RECURSIVE SumChanges(_, _)
SumChanges(picks, q) ==
    IF picks = <<>> THEN [total |-> Rat(0, 1), count |-> 0]
    ELSE LET rest == SumChanges(Tail(picks), q)
             pick == Head(picks)
         IN IF q[pick.ticker] = Unavailable THEN rest
            ELSE [total |-> RatAdd(PctChange(q[pick.ticker][1], pick.price), rest.total),
                  count |-> rest.count + 1]

(* mutation: the total is divided by the number of picks *)
calculate_points_over_all_picks(picks, q) ==
    LET s == SumChanges(picks, q)
    IN IF s.count > 0 THEN RoundHalfEven(s.total.n * 100, s.total.d * Len(picks)) ELSE 0

(* hundredths of a percent *)
calculate_points(picks, q) ==
    LET s == SumChanges(picks, q)
    IN IF s.count > 0 THEN RoundHalfEven(s.total.n * 100, s.total.d * s.count) ELSE 0

RECURSIVE SumVolatilities(_, _)
SumVolatilities(picks, hv) ==
    IF picks = <<>> THEN [total |-> Rat(0, 1), count |-> 0]
    ELSE LET rest == SumVolatilities(Tail(picks), hv)
             pick == Head(picks)
         IN IF hv[pick.ticker] = Unavailable THEN rest
            ELSE [total |-> RatAdd(hv[pick.ticker][1], rest.total), count |-> rest.count + 1]

calculate_volatility(picks, hv) ==
    LET s == SumVolatilities(picks, hv)
    IN IF s.count = 0 THEN InfR
       ELSE IF s.total.k = "nan" THEN NaNR
       ELSE Rat(s.total.n, s.total.d * s.count)

(* every (player, pick) in the iteration order of data['picks'] *)
RECURSIVE AllPicks(_)
AllPicks(picks) ==
    IF picks = <<>> THEN <<>>
    ELSE [i \in 1..Len(Head(picks).v) |-> [player |-> Head(picks).k, pick |-> Head(picks).v[i]]]
         \o AllPicks(Tail(picks))

(* mutation: the players are compared by the mean gain of their picks *)
HighestGainOfPlayerMeans(entries, q, best) ==
    LET picksOf(p) ==
            LET own == SelectSeq(entries, LAMBDA e : e.player = p)
            IN [i \in 1..Len(own) |-> own[i].pick]
        mean(p) ==
            LET s == SumChanges(picksOf(p), q)
            IN IF s.count > 0
               THEN Rat(RoundHalfEven(s.total.n * 100, s.total.d * s.count), 100)
               ELSE NegInfR
        top == {i \in 1..Len(entries) :
                   \A j \in 1..Len(entries) :
                       ~Less(mean(entries[i].player), mean(entries[j].player))}
        first == CHOOSE i \in top : \A j \in top : i <= j
    IN IF entries = <<>> \/ mean(entries[first].player).k = "-inf" THEN best
       ELSE [winner |-> Some(entries[first].player), value |-> mean(entries[first].player)]

RECURSIVE HighestGain(_, _, _)
HighestGain(entries, q, best) ==
    IF entries = <<>> THEN best
    ELSE LET e == Head(entries)
             current == q[e.pick.ticker]
             gain == PctChange(current[1], e.pick.price)
         IN IF current # Unavailable /\ Less(best.value, gain)
            THEN HighestGain(Tail(entries), q, [winner |-> Some(e.player), value |-> gain])
            ELSE HighestGain(Tail(entries), q, best)

(* mutation: a volatility as high as the lowest so far wins *)
RECURSIVE LowestVolatilityOrEqual(_, _, _)
LowestVolatilityOrEqual(picks, hv, best) ==
    IF picks = <<>> THEN best
    ELSE LET volatility == calculate_volatility(Head(picks).v, hv)
         IN IF ~Less(best.value, volatility)
            THEN LowestVolatilityOrEqual(Tail(picks), hv,
                     [winner |-> Some(Head(picks).k), value |-> volatility])
            ELSE LowestVolatilityOrEqual(Tail(picks), hv, best)

RECURSIVE LowestVolatility(_, _, _)
LowestVolatility(picks, hv, best) ==
    IF picks = <<>> THEN best
    ELSE LET volatility == calculate_volatility(Head(picks).v, hv)
         IN IF Less(volatility, best.value)
            THEN LowestVolatility(Tail(picks), hv,
                     [winner |-> Some(Head(picks).k), value |-> volatility])
            ELSE LowestVolatility(Tail(picks), hv, best)

ResolveMilestone(milestone, picks, q, hv) ==
    LET best == IF milestone.type = "highest_gain"
                THEN HighestGain(AllPicks(picks), q, [winner |-> None, value |-> NegInfR])
                ELSE LowestVolatility(picks, hv, [winner |-> None, value |-> InfR])
    IN [milestone EXCEPT !.winner = best.winner, !.value = Round2(best.value)]

-----------------------------------------------------------------------------
(* GET /game.  Only what it saves is modelled; the leaderboard it renders   *)
(* is LeaderboardOf.                                                        *)

(* mutation: a due milestone is evaluated again although it has a winner *)
GameResolvingAgain(q, hv) ==
    LET ended == data.end_date # None /\ now > data.end_date[1]
        d1 == IF ended THEN [data EXCEPT !.status = "finished"] ELSE data
        milestones ==
            [i \in 1..Len(d1.milestones) |->
                IF now >= d1.milestones[i].time
                THEN ResolveMilestone(d1.milestones[i], d1.picks, q, hv)
                ELSE d1.milestones[i]]
    IN /\ data' = [d1 EXCEPT !.milestones = milestones]
       /\ UNCHANGED <<history, now>>

(* mutation: a milestone without a winner is evaluated whatever the time *)
GameSavedResolvingEarly(d, q, hv, t) ==
    LET ended == d.end_date # None /\ t > d.end_date[1]
        d1 == IF ended THEN [d EXCEPT !.status = "finished"] ELSE d
        milestones ==
            [i \in 1..Len(d1.milestones) |->
                IF d1.milestones[i].winner = None
                THEN ResolveMilestone(d1.milestones[i], d1.picks, q, hv)
                ELSE d1.milestones[i]]
    IN [d1 EXCEPT !.milestones = milestones]

(* the record GET /game leaves behind when it loaded d at time t *)
GameSaved(d, q, hv, t) ==
    LET ended == d.end_date # None /\ t > d.end_date[1]
        d1 == IF ended THEN [d EXCEPT !.status = "finished"] ELSE d
        milestones ==
            [i \in 1..Len(d1.milestones) |->
                IF t >= d1.milestones[i].time /\ d1.milestones[i].winner = None
                THEN ResolveMilestone(d1.milestones[i], d1.picks, q, hv)
                ELSE d1.milestones[i]]
    IN [d1 EXCEPT !.milestones = milestones]

Game(q, hv) ==
    /\ data' = GameSaved(data, q, hv, now)
    /\ UNCHANGED <<history, now>>

-----------------------------------------------------------------------------
(* list.sort(key=points, reverse=True): stable, descending *)

RECURSIVE InsertByPoints(_, _)
InsertByPoints(sorted, e) ==
    IF sorted = <<>> THEN <<e>>
    ELSE IF Head(sorted).points >= e.points
    THEN <<Head(sorted)>> \o InsertByPoints(Tail(sorted), e)
    ELSE <<e>> \o sorted

RECURSIVE SortByPoints(_)
SortByPoints(board) ==
    IF board = <<>> THEN <<>>
    ELSE InsertByPoints(SortByPoints(SubSeq(board, 1, Len(board) - 1)), board[Len(board)])

(* the leaderboard GET /game renders from the record it has just saved *)

MilestoneBonus == 5

(* mutation: a resolved milestone pays every player *)
BonusForAnyWinner(milestone_results, player) ==
    MilestoneBonus
      * Cardinality({i \in 1..Len(milestone_results) :
                        milestone_results[i].winner # None})

(* sum(5 for m in milestone_results if m['winner'] == player) *)
BonusOf(milestone_results, player) ==
    MilestoneBonus
      * Cardinality({i \in 1..Len(milestone_results) :
                        milestone_results[i].winner = Some(player)})

(* points in hundredths of a percent *)
LeaderboardOf(d, q) ==
    SortByPoints(
        [i \in 1..Len(d.picks) |->
            LET bonus == BonusOf(d.milestones, d.picks[i].k)
            IN [name |-> d.picks[i].k,
                points |-> calculate_points(d.picks[i].v, q) + 100 * bonus,
                bonus |-> bonus]])

(* mutation: the identifiers of the history count from 0 *)
archive_game_numbering_from_zero(d, hist, q) ==
    LET board == [i \in 1..Len(d.picks) |->
                     [name |-> d.picks[i].k, points |-> calculate_points(d.picks[i].v, q)]]
        leaderboard == SortByPoints(board)
    IN Append(hist,
           [id |-> Len(hist),
            end_date |-> DateOf(d.end_date[1]),
            time_frame |-> d.time_frame,
            winner |-> IF leaderboard # <<>> THEN Some(leaderboard[1].name) ELSE None,
            leaderboard |-> leaderboard,
            picks |-> d.picks])

archive_game(d, hist, q) ==
    LET board == [i \in 1..Len(d.picks) |->
                     [name |-> d.picks[i].k, points |-> calculate_points(d.picks[i].v, q)]]
        leaderboard == SortByPoints(board)
    IN Append(hist,
           [id |-> Len(hist) + 1,
            end_date |-> DateOf(d.end_date[1]),
            time_frame |-> d.time_frame,
            winner |-> IF leaderboard # <<>> THEN Some(leaderboard[1].name) ELSE None,
            leaderboard |-> leaderboard,
            picks |-> d.picks])

(* POST /new_game *)
new_game(q) ==
    /\ history' = IF data.status = "finished" THEN archive_game(data, history, q) ELSE history
    /\ data' = BlankRecord
    /\ UNCHANGED now

-----------------------------------------------------------------------------
(* The environment: the clock, the quote source and the inputs of the       *)
(* requests.                                                                *)

Instants == {Days(30), Days(60), Days(90), Days(90) + 1}

(* the clock is advanced once a draft has been completed *)
Tick ==
    /\ data.status \in {"done", "finished"}
    /\ data.end_date # None
    /\ \E t \in Instants : t > now /\ now' = t
    /\ UNCHANGED <<data, history>>

KnownTickers == {tickA, tickB}

RawTickers == {<<"a">>, <<" ", "A", " ">>, <<"b">>, <<" ">>}

(* what the quote source quotes for a ticker at time t *)
QuotePrice(ticker, t) ==
    IF ticker = tickA THEN (IF t < Days(30) THEN 100 ELSE 110)
    ELSE (IF t < Days(30) THEN 50 ELSE 45)

(* the lookups of one request: every ticker of `available` resolves *)
QuoteAt(available, t) ==
    [ticker \in KnownTickers |->
        IF ticker \in available THEN Some(QuotePrice(ticker, t)) ELSE Unavailable]

HistoryAt(available) ==
    [ticker \in KnownTickers |->
        IF ticker \in available
        THEN Some(IF ticker = tickA THEN Rat(30, 1) ELSE Rat(20, 1))
        ELSE Unavailable]

StartForms ==
    { [num_players |-> 2, num_picks |-> "1", time_frame |-> "1 Quarter",
       custom_days |-> None, names |-> <<ann, bob>>],
      [num_players |-> 2, num_picks |-> "7", time_frame |-> "1 Quarter",
       custom_days |-> None, names |-> <<ann, <<" ", "b", "o", "b">>>>],
      [num_players |-> 2, num_picks |-> "1", time_frame |-> "1 Quarter",
       custom_days |-> None, names |-> <<ann, <<" ", "a", "n", "n">>>>],
      [num_players |-> 2, num_picks |-> "1", time_frame |-> "Custom",
       custom_days |-> Some(29), names |-> <<ann, bob>>],
      [num_players |-> 1, num_picks |-> "1", time_frame |-> "1 Quarter",
       custom_days |-> None, names |-> <<ann>>] }

DraftNames == {ann, bob, zed}

TradeParties == {ann, bob, zed}

Responses == {"accepted", "rejected"}

MaxTrades == 4

MaxGameTrades == 1

MaxHistory == 1

StartStep == \E form \in StartForms : Start(form)

DraftPostStep ==
    \E name \in DraftNames, raw \in RawTickers, ok \in BOOLEAN :
        DraftPost(name, raw,
            IF ok THEN Some(QuotePrice(NormalizeTicker(raw), now)) ELSE Unavailable)

ProposeStep(limit) ==
    \E f \in TradeParties, t \in {ann, bob} :
        /\ Len(data.trades) < limit
        /\ Propose(f, t, tickA, tickB)

RespondStep(limit) ==
    \E id \in 1..(limit + 1), response \in Responses : Respond(id, response)

GameStep ==
    \E pa \in SUBSET KnownTickers, ha \in SUBSET KnownTickers :
        Game(QuoteAt(pa, now), HistoryAt(ha))

NewGameStep ==
    /\ data.status = "finished" => Len(history) < MaxHistory
    /\ \E pa \in SUBSET KnownTickers : new_game(QuoteAt(pa, now))

(* what a request to the game leaves alone *)
Aside == UNCHANGED <<snake, fetch, cache, clock, lookup, race, score>>

(* the whole game, with the clock *)
Next ==
    \/ StartStep /\ Aside
    \/ DraftPostStep /\ Aside
    \/ DraftGet /\ Aside
    \/ ProposeStep(MaxGameTrades) /\ Aside
    \/ RespondStep(MaxGameTrades) /\ Aside
    \/ TradeGet /\ Aside
    \/ GameStep /\ Aside
    \/ NewGameStep /\ Aside
    \/ Tick /\ Aside

Spec == Init /\ [][Next]_vars

(* the trading window: drafts and trades at one instant *)
NextTrade ==
    \/ StartStep /\ Aside
    \/ DraftPostStep /\ Aside
    \/ DraftGet /\ Aside
    \/ ProposeStep(MaxTrades) /\ Aside
    \/ RespondStep(MaxTrades) /\ Aside

SpecTrade == Init /\ [][NextTrade]_vars

-----------------------------------------------------------------------------
(* the draft queue: get_snake_order on its own, and as start() uses it *)

MaxPlayers == 3

MaxRounds == 10

SnakePool == {ann, bob, zed, dee}

SnakeLists == UNION {{s \in [1..n -> SnakePool] : NoDup(s)} : n \in 1..MaxPlayers}

InitSnake ==
    /\ data = BlankRecord
    /\ history = <<>>
    /\ now = 0
    /\ snake \in {[players |-> p, total_rounds |-> r, order |-> None] :
                    p \in SnakeLists, r \in 0..MaxRounds}
    /\ fetch = NoFetch
    /\ cache = <<>>
    /\ clock = 0
    /\ lookup = NoLookup
    /\ race = NoRace
    /\ score = NoScore

SnakeCompute ==
    /\ snake.order = None
    /\ snake' = [snake EXCEPT
                    !.order = Some(get_snake_order(snake.players, snake.total_rounds))]
    /\ UNCHANGED <<data, history, now, fetch, cache, clock, lookup, race, score>>

(* /start for the same players and as many picks as rounds *)
SnakeStart ==
    \E num_picks \in PickCounts :
        /\ IntOf(num_picks) = snake.total_rounds
        /\ Start([num_players |-> Len(snake.players), num_picks |-> num_picks,
                  time_frame |-> "1 Quarter", custom_days |-> None,
                  names |-> snake.players])
        /\ Aside

NextSnake ==
    \/ SnakeCompute
    \/ SnakeStart
    \/ DraftPostStep /\ Aside

SpecSnake == InitSnake /\ [][NextSnake]_vars

-----------------------------------------------------------------------------
(* fetch_stock_info against every run of answers of the quote source *)

Answers ==
    {[kind |-> "close", value |-> 110], [kind |-> "close", value |-> 0],
     [kind |-> "empty", value |-> 0],
     [kind |-> "http", value |-> RateLimitStatus], [kind |-> "http", value |-> 500],
     [kind |-> "error", value |-> 0]}

(* one answer more than the calls the loop can make *)
AnswerRuns == [1..(max_retries + 1) -> Answers]

InitFetch ==
    /\ data = BlankRecord
    /\ history = <<>>
    /\ now = 0
    /\ snake = NoSnake
    /\ fetch \in {[answers |-> a, outcome |-> None] : a \in AnswerRuns}
    /\ cache = <<>>
    /\ clock = 0
    /\ lookup = NoLookup
    /\ race = NoRace
    /\ score = NoScore

FetchRun ==
    /\ fetch.outcome = None
    /\ fetch' = [fetch EXCEPT !.outcome = Some(fetch_stock_info(fetch.answers))]
    /\ UNCHANGED <<data, history, now, snake, cache, clock, lookup, race, score>>

NextFetch == FetchRun

SpecFetch == InitFetch /\ [][NextFetch]_vars

-----------------------------------------------------------------------------
(* the price cache under lookups in either letter case, around the expiry   *)
(* of its entries.  The quote source answers at once here (a price or an    *)
(* empty history): its rate limits are the subject of SpecFetch.            *)

CacheTickers == {<<"a">>, <<"A">>, <<"b">>}

CacheInstants ==
    {1, cache_duration - 1, cache_duration, cache_duration + 1, 2 * cache_duration}

(* the last close the quote source has at second t *)
SourceClose(t) == IF t < cache_duration THEN 100 ELSE 110

Steady(answer) == [k \in 1..(max_retries + 1) |-> answer]

CacheTick ==
    /\ \E t \in CacheInstants : t > clock /\ clock' = t
    /\ UNCHANGED <<data, history, now, snake, fetch, cache, lookup, race, score>>

LookupStep ==
    /\ \E ticker \in CacheTickers,
          answer \in {[kind |-> "close", value |-> SourceClose(clock)],
                      [kind |-> "empty", value |-> 0]} :
          LookupPrice(ticker, Steady(answer))
    /\ UNCHANGED <<data, history, now, snake, fetch, race, score>>

NextCache ==
    \/ LookupStep
    \/ CacheTick

SpecCache == Init /\ [][NextCache]_vars

-----------------------------------------------------------------------------
(* /start against forms that its checks refuse, from any record *)

RawNames == {ann, <<" ", "a", "n", "n">>, bob, zed, <<>>, <<" ">>}

Letters == <<"a", "b", "c", "d", "e", "f", "g", "h", "i", "j", "k", "l", "m">>

(* as many one-letter names as there are letters *)
ManyNames == [i \in 1..Len(Letters) |-> <<Letters[i]>>]

Durations ==
    {[time_frame |-> "1 Quarter", custom_days |-> None],
     [time_frame |-> "Custom", custom_days |-> None],
     [time_frame |-> "Custom", custom_days |-> Some(29)],
     [time_frame |-> "Custom", custom_days |-> Some(30)],
     [time_frame |-> "Custom", custom_days |-> Some(730)],
     [time_frame |-> "Custom", custom_days |-> Some(731)]}

WideForms ==
    {[num_players |-> n, num_picks |-> "1", time_frame |-> dur.time_frame,
      custom_days |-> dur.custom_days, names |-> names] :
        n \in {2}, dur \in Durations, names \in [1..2 -> RawNames]}
    \cup
    {[num_players |-> n, num_picks |-> "1", time_frame |-> "1 Quarter",
      custom_days |-> None, names |-> names] :
        n \in {3}, names \in [1..3 -> RawNames]}
    \cup
    {[num_players |-> n, num_picks |-> "1", time_frame |-> "1 Quarter",
      custom_days |-> None, names |-> ManyNames] : n \in {0, 1, 12, 13}}

StartWideStep == \E form \in WideForms : Start(form)

NextStart ==
    \/ StartWideStep /\ Aside
    \/ DraftPostStep /\ Aside
    \/ DraftGet /\ Aside

SpecStart == Init /\ [][NextStart]_vars

-----------------------------------------------------------------------------
(* game after game: each is drafted in turn, runs out and is archived, or   *)
(* is thrown away by /new_game in an earlier phase                          *)

MaxArchived == 2

(* the clock stops once MaxArchived games in a row could have run out *)
Horizon == Days(91) * MaxArchived

HistStart == Start(CHOOSE form \in StartForms : form.names = <<ann, bob>>)

HistDraft ==
    /\ data.draft_order # <<>>
    /\ \E raw \in {<<"a">>, <<"b">>} :
          DraftPost(Head(data.draft_order), raw,
              Some(QuotePrice(NormalizeTicker(raw), now)))

(* the game runs out *)
HistTick ==
    /\ data.status = "done"
    /\ data.end_date # None
    /\ now <= data.end_date[1]
    /\ data.end_date[1] + 1 <= Horizon
    /\ now' = data.end_date[1] + 1
    /\ UNCHANGED <<data, history>>

HistGame == Game(QuoteAt(KnownTickers, now), HistoryAt(KnownTickers))

HistNewGame ==
    /\ data.status = "finished" => Len(history) < MaxArchived
    /\ \E available \in {{}, KnownTickers} : new_game(QuoteAt(available, now))

NextHistory ==
    \/ HistStart /\ Aside
    \/ HistDraft /\ Aside
    \/ DraftGet /\ Aside
    \/ HistTick /\ Aside
    \/ HistGame /\ Aside
    \/ HistNewGame /\ Aside

SpecHistory == Init /\ [][NextHistory]_vars

-----------------------------------------------------------------------------
(* Two requests at once.  A handler loads the record (load_data), works on  *)
(* its copy and writes the copy back (save_data); nothing keeps another     *)
(* request from loading or saving in between.                               *)

DraftRecord == NewGame(<<ann, bob>>, "1", "1 Quarter", None, 0)

DoneRecord ==
    [Picked(Picked(DraftRecord, ann, <<"a">>, Some(100), 0), bob, <<"b">>, Some(50), 0)
        EXCEPT !.status = "done"]

(* the same, with ann's proposal of A for B pending *)
TradedRecord == Proposed(DoneRecord, ann, bob, tickA, tickB)

RaceOps ==
    {[kind |-> "propose", name |-> ann, to |-> bob, raw |-> <<>>, response |-> ""],
     [kind |-> "propose", name |-> bob, to |-> ann, raw |-> <<>>, response |-> ""],
     [kind |-> "pick", name |-> ann, to |-> <<>>, raw |-> <<"a">>, response |-> ""],
     [kind |-> "pick", name |-> bob, to |-> <<>>, raw |-> <<"b">>, response |-> ""],
     [kind |-> "pick", name |-> bob, to |-> <<>>, raw |-> <<"a">>, response |-> ""],
     [kind |-> "respond", name |-> <<>>, to |-> <<>>, raw |-> <<>>, response |-> "accepted"],
     [kind |-> "respond", name |-> <<>>, to |-> <<>>, raw |-> <<>>, response |-> "rejected"],
     [kind |-> "game", name |-> <<>>, to |-> <<>>, raw |-> <<>>, response |-> ""]}

(* the copy as the handler has changed it *)
Handled(op, d, t) ==
    CASE op.kind = "propose" -> Proposed(d, op.name, op.to, tickA, tickB)
      [] op.kind = "pick" ->
            Picked(d, op.name, op.raw, Some(QuotePrice(NormalizeTicker(op.raw), t)), t)
      [] op.kind = "respond" -> Responded(d, 1, op.response)
      [] op.kind = "game" ->
            GameSaved(d, QuoteAt(KnownTickers, t), HistoryAt(KnownTickers), t)

(* whether the handler reaches save_data: game() saves when the game has    *)
(* run out or a due milestone has no winner, the others when they succeed   *)
Saves(op, d, t) ==
    IF op.kind = "game"
    THEN \/ d.end_date # None /\ t > d.end_date[1]
         \/ \E i \in 1..Len(d.milestones) :
               t >= d.milestones[i].time /\ d.milestones[i].winner = None
    ELSE Handled(op, d, t) # d

(* mutation: only the pick lists of the copy are written *)
SavedPicksOnly(op, local, current, t) ==
    [current EXCEPT !.picks = Handled(op, local, t).picks]

(* mutation: the handler works on the record as it is when it saves *)
SavedOverCurrent(op, local, current, t) == Handled(op, current, t)

(* what save_data writes: the loaded copy as changed, whatever the file     *)
(* holds by now                                                             *)
Saved(op, local, current, t) == Handled(op, local, t)

InitRace ==
    /\ data \in {DraftRecord, DoneRecord, TradedRecord}
    /\ history = <<>>
    /\ now \in {0, Days(30)}
    /\ snake = NoSnake
    /\ fetch = NoFetch
    /\ cache = <<>>
    /\ clock = 0
    /\ lookup = NoLookup
    /\ race = [NoRace EXCEPT !.orig = Some(data)]
    /\ score = NoScore

RaceLoad(p) ==
    /\ race.callers[p].pc = "idle"
    /\ \E op \in RaceOps :
          race' = [race EXCEPT !.callers[p] =
                      [pc |-> "loaded", op |-> Some(op), local |-> Some(data),
                       stale |-> FALSE, wrote |-> FALSE]]
    /\ UNCHANGED <<data, history, now, snake, fetch, cache, clock, lookup, score>>

RaceSave(p) ==
    LET c == race.callers[p]
        writes == Saves(c.op[1], c.local[1], now)
    IN /\ c.pc = "loaded"
       /\ data' = IF writes THEN Saved(c.op[1], c.local[1], data, now) ELSE data
       /\ race' = [race EXCEPT
                      !.callers =
                          [q \in Callers |->
                              IF q = p THEN [c EXCEPT !.pc = "done", !.wrote = writes]
                              ELSE IF writes /\ race.callers[q].pc = "loaded"
                              THEN [race.callers[q] EXCEPT !.stale = TRUE]
                              ELSE race.callers[q]],
                      !.last = IF writes THEN p ELSE @]
       /\ UNCHANGED <<history, now, snake, fetch, cache, clock, lookup, score>>

NextRace ==
    \/ \E p \in Callers : RaceLoad(p)
    \/ \E p \in Callers : RaceSave(p)

SpecRace == InitRace /\ [][NextRace]_vars

MaxAgain == 1

(* request after request: a caller that has answered takes the next request *)
RaceAgain(p) ==
    /\ race.callers[p].pc = "done"
    /\ race.again < MaxAgain
    /\ race' = [race EXCEPT !.callers[p] = Idle, !.again = @ + 1]
    /\ UNCHANGED <<data, history, now, snake, fetch, cache, clock, lookup, score>>

NextRaceOn ==
    \/ \E p \in Callers : RaceLoad(p)
    \/ \E p \in Callers : RaceSave(p)
    \/ \E p \in Callers : RaceAgain(p)

SpecRaceOn == InitRace /\ [][NextRaceOn]_vars

-----------------------------------------------------------------------------
(* Two cache writes at once.  cache_stock_info loads the whole file, sets   *)
(* one key in its copy and writes the whole copy back.                      *)

StoreInfos == {[currentPrice |-> 100], [currentPrice |-> 110]}

InitCacheRace ==
    /\ data = BlankRecord
    /\ history = <<>>
    /\ now = 0
    /\ snake = NoSnake
    /\ fetch = NoFetch
    /\ cache \in {<<>>, cache_stock_info(<<>>, <<"c">>, [currentPrice |-> 90], 0)}
    /\ clock \in {1, cache_duration}
    /\ lookup = NoLookup
    /\ race = [NoRace EXCEPT !.orig = Some(cache)]
    /\ score = NoScore

(* cache = load_cache() *)
StoreLoad(p) ==
    /\ race.callers[p].pc = "idle"
    /\ \E ticker \in CacheTickers, info \in StoreInfos :
          race' = [race EXCEPT !.callers[p] =
                      [pc |-> "loaded", op |-> Some([ticker |-> ticker, info |-> info]),
                       local |-> Some(cache), stale |-> FALSE, wrote |-> FALSE]]
    /\ UNCHANGED <<data, history, now, snake, fetch, cache, clock, lookup, score>>

(* cache[ticker] = {...}; save_cache(cache) *)
StoreSave(p) ==
    LET c == race.callers[p]
    IN /\ c.pc = "loaded"
       /\ cache' = cache_stock_info(c.local[1], c.op[1].ticker, c.op[1].info, clock)
       /\ race' = [race EXCEPT
                      !.callers =
                          [q \in Callers |->
                              IF q = p THEN [c EXCEPT !.pc = "done", !.wrote = TRUE]
                              ELSE IF race.callers[q].pc = "loaded"
                              THEN [race.callers[q] EXCEPT !.stale = TRUE]
                              ELSE race.callers[q]],
                      !.last = p]
       /\ UNCHANGED <<data, history, now, snake, fetch, clock, lookup, score>>

NextCacheRace ==
    \/ \E p \in Callers : StoreLoad(p)
    \/ \E p \in Callers : StoreSave(p)

SpecCacheRace == InitCacheRace /\ [][NextCacheRace]_vars

-----------------------------------------------------------------------------
(* Scoring as pure functions: calculate_points and the two milestone        *)
(* evaluations of game(), applied to portfolios, quotes and histories.      *)

tickC == <<"C">>

ScoreTickers == <<tickA, tickB, tickC>>

DraftPriceOf(ticker) ==
    IF ticker = tickA THEN 100 ELSE IF ticker = tickB THEN 50 ELSE 30

(* the picks dict in which player h[ticker] holds ticker, the players in    *)
(* the order of their first picks                                           *)
Portfolio(h, order) ==
    LET held(p) == SelectSeq(ScoreTickers, LAMBDA ticker : h[ticker] = p)
        owners == SelectSeq(order, LAMBDA p : held(p) # <<>>)
    IN [i \in 1..Len(owners) |->
           [k |-> owners[i],
            v |-> [j \in 1..Len(held(owners[i])) |->
                      [ticker |-> held(owners[i])[j],
                       price |-> DraftPriceOf(held(owners[i])[j]),
                       time |-> 0]]]]

Portfolios ==
    {Portfolio(h, order) : h \in [Range(ScoreTickers) -> {ann, bob, None}],
                           order \in {<<ann, bob>>, <<bob, ann>>}}

(* current prices: none, or one of two per ticker *)
ScoreQuotes ==
    {q \in [Range(ScoreTickers) -> {Unavailable, Some(110), Some(90), Some(45),
                                     Some(60), Some(31), Some(30)}] :
        /\ q[tickA] \in {Unavailable, Some(110), Some(90)}
        /\ q[tickB] \in {Unavailable, Some(45), Some(60)}
        /\ q[tickC] \in {Unavailable, Some(31), Some(30)}}

(* annualized volatilities: no series, a number, or the NaN of a series too *)
(* short for a standard deviation                                           *)
ScoreHistories ==
    [Range(ScoreTickers) -> {Unavailable, Some(Rat(20, 1)), Some(Rat(30, 1)), Some(NaNR)}]

NoQuotes == [ticker \in Range(ScoreTickers) |-> Unavailable]

DueMilestone(type) ==
    [type |-> type, time |-> 0, winner |-> None, value |-> Fin(0)]

InitScore ==
    /\ data = BlankRecord
    /\ history = <<>>
    /\ now = 0
    /\ snake = NoSnake
    /\ fetch = NoFetch
    /\ cache = <<>>
    /\ clock = 0
    /\ lookup = NoLookup
    /\ race = NoRace
    /\ \E picks \in Portfolios :
          \/ \E q \in ScoreQuotes :
                score = [NoScore EXCEPT !.picks = picks, !.q = q, !.hv = NoQuotes]
          \/ \E hv \in ScoreHistories :
                score = [NoScore EXCEPT !.picks = picks, !.q = NoQuotes, !.hv = hv]

(* points = calculate_points(picks), for each player of data['picks'] *)
PointsRun ==
    /\ score.points = None
    /\ score' = [score EXCEPT !.points =
                     Some([i \in 1..Len(score.picks) |->
                              calculate_points(score.picks[i].v, score.q)])]
    /\ UNCHANGED <<data, history, now, snake, fetch, cache, clock, lookup, race>>

(* the evaluation of a due highest_gain milestone *)
GainRun ==
    /\ score.gain = None
    /\ score' = [score EXCEPT !.gain =
                     Some(ResolveMilestone(DueMilestone("highest_gain"),
                                           score.picks, score.q, score.hv))]
    /\ UNCHANGED <<data, history, now, snake, fetch, cache, clock, lookup, race>>

(* the evaluation of a due lowest_volatility milestone *)
VolRun ==
    /\ score.vol = None
    /\ score' = [score EXCEPT !.vol =
                     Some(ResolveMilestone(DueMilestone("lowest_volatility"),
                                           score.picks, score.q, score.hv))]
    /\ UNCHANGED <<data, history, now, snake, fetch, cache, clock, lookup, race>>

NextScore ==
    \/ PointsRun
    \/ GainRun
    \/ VolRun

SpecScore == InitScore /\ [][NextScore]_vars

-----------------------------------------------------------------------------
(* The dates of a game: start() at chosen instants under each duration      *)
(* policy.                                                                  *)

StartDates ==
    {<<2023, 1, 1>>, <<2023, 2, 28>>, <<2023, 3, 1>>, <<2023, 6, 29>>, <<2023, 6, 30>>,
     <<2023, 7, 1>>, <<2023, 12, 31>>, <<2024, 1, 1>>, <<2024, 1, 2>>, <<2024, 2, 15>>,
     <<2024, 2, 29>>, <<2024, 3, 1>>, <<2024, 6, 30>>, <<2024, 12, 31>>}

(* datetime.now() at the start: midnight, mid-morning, the last hour *)
StartInstants == {DateTime(d[1], d[2], d[3]) + h : d \in StartDates, h \in {0, 10, 23}}

Policies ==
    {[time_frame |-> "1 Quarter", custom_days |-> None],
     [time_frame |-> "6 Months", custom_days |-> None],
     [time_frame |-> "Fiscal Year", custom_days |-> None],
     [time_frame |-> "Calendar Year", custom_days |-> None],
     [time_frame |-> "Custom", custom_days |-> Some(30)],
     [time_frame |-> "Custom", custom_days |-> Some(31)],
     [time_frame |-> "Custom", custom_days |-> Some(730)]}

InitDates ==
    /\ data = BlankRecord
    /\ history = <<>>
    /\ now \in StartInstants
    /\ snake = NoSnake
    /\ fetch = NoFetch
    /\ cache = <<>>
    /\ clock = 0
    /\ lookup = NoLookup
    /\ race = NoRace
    /\ score = NoScore

DateStart ==
    \E policy \in Policies :
        Start([num_players |-> 2, num_picks |-> "1", time_frame |-> policy.time_frame,
               custom_days |-> policy.custom_days, names |-> <<ann, bob>>])

NextDates ==
    \/ DateStart /\ Aside
    \/ DraftGet /\ Aside

SpecDates == InitDates /\ [][NextDates]_vars

-----------------------------------------------------------------------------
(* a draft that is still going on when the game runs out *)

(* the clock jumps past the end of the first game, whatever its phase *)
LateTick ==
    /\ data.end_date # None
    /\ now = 0
    /\ now' = data.end_date[1] + 1
    /\ UNCHANGED <<data, history>>

NextLate ==
    \/ StartStep /\ Aside
    \/ DraftPostStep /\ Aside
    \/ DraftGet /\ Aside
    \/ GameStep /\ Aside
    \/ LateTick /\ Aside

SpecLate == Init /\ [][NextLate]_vars

-----------------------------------------------------------------------------
(* Properties *)

PicksOf(d, name) == DictGetOr(d.picks, name, <<>>)

Holds(d, name, ticker) == ticker \in Range(PickTickers(PicksOf(d, name)))

CanonTicker(t) == Strip(Upper(t))

Canon(tickers) == [i \in 1..Len(tickers) |-> CanonTicker(tickers[i])]

HeldTickers(d) ==
    LET all == AllPicks(d.picks) IN [i \in 1..Len(all) |-> all[i].pick.ticker]

TradeCount(d, name) == Cardinality({k \in 1..Len(d.trades) : d.trades[k].from_player = name})

Quota(d, name) == DictGetOr(d.trade_limits, name, 0)

(* a step that installs a new record: /start or /new_game *)
ResetStep ==
    \/ data'.status = "setup"
    \/ data'.status = "draft" /\ data'.all_picks = <<>> /\ data'.trades = <<>>

(* C1: no ticker, compared after upper-casing and trimming, occurs twice in *)
(* the drafted-ticker registry or across the players' pick lists, after any *)
(* sequence of picks and trades; so no submission of a drafted ticker, by   *)
(* whichever player, is ever recorded.                                      *)
C1_NoTickerDraftedTwice ==
    /\ NoDup(Canon(data.all_picks))
    /\ NoDup(Canon(HeldTickers(data)))

C1_Witness ==
    /\ Len(data.all_picks) = 2
    /\ \E k \in 1..Len(data.trades) : data.trades[k].status = "accepted"

(* C2: a pick is recorded only for the player at the front of the draft     *)
(* queue, and it removes exactly that front entry.                          *)
C2_PickOnlyByFrontOfQueue ==
    [][Len(data'.all_picks) = Len(data.all_picks) + 1
        => /\ data.draft_order # <<>>
           /\ data'.draft_order = Tail(data.draft_order)
           /\ \A name \in DraftNames :
                 Len(PicksOf(data', name)) > Len(PicksOf(data, name))
                    => name = Head(data.draft_order)]_vars

PhaseEdges ==
    {<<"setup", "draft">>, <<"draft", "done">>, <<"done", "finished">>,
     <<"finished", "setup">>}

(* C3: the phase changes only along setup->draft, draft->done,              *)
(* done->finished and finished->setup.                                      *)
C3_PhaseEdgesOnly ==
    [][data'.status # data.status => <<data.status, data'.status>> \in PhaseEdges]_vars

(* C4: a trade whose status has left pending keeps that status, and a       *)
(* response to it changes no pick list and no picked list.                  *)
C4_TradeStatusTerminal ==
    [][/\ \A k \in 1..Len(data.trades) :
            (k <= Len(data'.trades) /\ data.trades[k].status # "pending")
               => data'.trades[k].status = data.trades[k].status
       /\ (/\ data.status = "done" /\ data'.status = "done"
           /\ Len(data'.trades) = Len(data.trades)
           /\ \A k \in 1..Len(data.trades) : data.trades[k].status # "pending")
             => data'.picks = data.picks /\ data'.players = data.players]_vars

(* C5: when a pending trade whose proposer A holds the offered X and whose  *)
(* partner B holds the requested Y is accepted, afterwards A holds Y and    *)
(* not X, B holds X and not Y, and each holds as many picks as before.      *)
C5_AcceptedTradeSwapsPicks ==
    [][\A k \in 1..Len(data.trades) :
          LET t == data.trades[k] IN
          (/\ Len(data'.trades) = Len(data.trades)
           /\ t.status = "pending"
           /\ data'.trades[k].status = "accepted"
           /\ Holds(data, t.from_player, t.offer_ticker)
           /\ Holds(data, t.to_player, t.request_ticker))
             => /\ Holds(data', t.from_player, t.request_ticker)
                /\ ~Holds(data', t.from_player, t.offer_ticker)
                /\ Holds(data', t.to_player, t.offer_ticker)
                /\ ~Holds(data', t.to_player, t.request_ticker)
                /\ Len(PicksOf(data', t.from_player)) = Len(PicksOf(data, t.from_player))
                /\ Len(PicksOf(data', t.to_player)) = Len(PicksOf(data, t.to_player))]_vars

C5_Witness ==
    \E k \in 1..Len(data.trades) :
        LET t == data.trades[k] IN
        /\ t.status = "accepted"
        /\ Holds(data, t.from_player, t.request_ticker)
        /\ Holds(data, t.to_player, t.offer_ticker)

(* a step of the trading phase that settles a trade: a status becomes       *)
(* accepted, or pick lists or picked lists change                           *)
SettlingStep ==
    /\ data.status = "done" /\ data'.status = "done"
    /\ Len(data'.trades) = Len(data.trades)
    /\ \/ data'.picks # data.picks
       \/ data'.players # data.players
       \/ \E k \in 1..Len(data.trades) :
             data'.trades[k].status = "accepted" /\ data.trades[k].status # "accepted"

(* C6: accepting a trade whose proposer does not hold the offered ticker,   *)
(* or whose partner does not hold the requested one, changes nothing: every *)
(* settling step accepts one trade whose two tickers were held as stated.   *)
C6_AcceptWithoutOwnershipChangesNothing ==
    [][SettlingStep
        => \E k \in 1..Len(data.trades) :
              LET t == data.trades[k] IN
              /\ data'.trades[k].status = "accepted"
              /\ Holds(data, t.from_player, t.offer_ticker)
              /\ Holds(data, t.to_player, t.request_ticker)
              /\ \A j \in 1..Len(data.trades) : j # k => data'.trades[j] = data.trades[j]]_vars

C6_Witness ==
    /\ data.status = "done"
    /\ \E j, k \in 1..Len(data.trades) :
          /\ data.trades[j].status = "accepted"
          /\ data.trades[k].status = "pending"
          /\ ~Holds(data, data.trades[k].from_player, data.trades[k].offer_ticker)

(* C7: every player's picked list is the list of the tickers of that        *)
(* player's picks, and only players have picks.                             *)
C7_PickedMatchesPicks ==
    /\ \A i \in 1..Len(data.players) :
          data.players[i].picked = PickTickers(PicksOf(data, data.players[i].name))
    /\ \A i \in 1..Len(data.picks) :
          \E j \in 1..Len(data.players) : data.players[j].name = data.picks[i].k

C7_Witness ==
    /\ \E k \in 1..Len(data.trades) : data.trades[k].status = "accepted"
    /\ \E k \in 1..Len(data.trades) : data.trades[k].status = "rejected"
    /\ \A i \in 1..Len(data.players) : data.players[i].picked # <<>>

(* C8: every player's remaining quota is TradeLimit minus the number of     *)
(* trades that player has proposed, and lies in 0..TradeLimit.              *)
C8_QuotaCountsProposals ==
    /\ DictKeys(data.trade_limits) = [i \in 1..Len(data.players) |-> data.players[i].name]
    /\ \A i \in 1..Len(data.trade_limits) :
          LET e == data.trade_limits[i] IN
          /\ e.v \in 0..TradeLimit
          /\ e.v = TradeLimit - TradeCount(data, e.k)

C8_Witness ==
    \E i \in 1..Len(data.trade_limits) :
        /\ data.trade_limits[i].v = 0
        /\ \E k \in 1..Len(data.trades) : data.trades[k].status # "pending"

(* C9: a proposal with from = to, or whose proposer has no quota left (or   *)
(* is no player), leaves the trade list and the quotas as they are: every   *)
(* step that changes either appends one trade between two different         *)
(* parties whose proposer had quota left.                                   *)
C9_InvalidProposalChangesNothing ==
    [][(~ResetStep /\ (Len(data'.trades) # Len(data.trades)
                       \/ data'.trade_limits # data.trade_limits))
        => /\ Len(data'.trades) = Len(data.trades) + 1
           /\ LET t == data'.trades[Len(data'.trades)] IN
              /\ t.from_player # t.to_player
              /\ Quota(data, t.from_player) > 0]_vars

C9_Witness ==
    /\ data.status = "done"
    /\ Len(data.trades) < MaxTrades
    /\ \E i \in 1..Len(data.trade_limits) : data.trade_limits[i].v = 0

(* C10: the k-th trade has id k; a trade enters the list only at its end,   *)
(* with status pending; trades are never removed or reordered, and only     *)
(* their status ever changes.                                               *)
C10_TradeIdsSequential ==
    /\ [](\A k \in 1..Len(data.trades) : data.trades[k].id = k)
    /\ [][ResetStep
           \/ /\ Len(data'.trades) \in {Len(data.trades), Len(data.trades) + 1}
              /\ \A k \in 1..Len(data.trades) :
                    data'.trades[k] = [data.trades[k] EXCEPT !.status = data'.trades[k].status]
              /\ \A k \in (Len(data.trades) + 1)..Len(data'.trades) :
                    data'.trades[k].status = "pending"]_vars

C10_Witness ==
    /\ Len(data.trades) >= 3
    /\ data.trades[1].status = "accepted"
    /\ data.trades[3].status = "pending"

(* C11: a proposal or a response changes the record only in phase done: in  *)
(* setup, draft and finished the trade list, the quotas, and (but for a     *)
(* draft pick or a new game) the pick lists and picked lists stay as they   *)
(* are.                                                                     *)
C11_TradeOnlyWhenDone ==
    [][(/\ ~ResetStep
        /\ \/ data'.trades # data.trades
           \/ data'.trade_limits # data.trade_limits
           \/ /\ data'.all_picks = data.all_picks
              /\ \/ data'.picks # data.picks
                 \/ data'.players # data.players)
        => data.status = "done"]_vars

(* a finished game holding a pending trade both of whose sides still hold   *)
(* their tickers, and a proposer with quota left                            *)
C11_Witness ==
    /\ data.status = "finished"
    /\ \E k \in 1..Len(data.trades) :
          /\ data.trades[k].status = "pending"
          /\ Holds(data, data.trades[k].from_player, data.trades[k].offer_ticker)
          /\ Holds(data, data.trades[k].to_player, data.trades[k].request_ticker)
    /\ \E name \in TradeParties : Quota(data, name) > 0

(* C12: a read of the record (game view, draft view, trade view) made when  *)
(* the phase is done and the instant is past the end date sets the phase to *)
(* finished; a read made in any other phase, or not past the end date,      *)
(* leaves the phase as it is.                                               *)
C12_ReadsFinishExpiredDoneOnly ==
    [][(GameStep \/ DraftGet \/ TradeGet)
        => data'.status =
              IF /\ data.status = "done"
                 /\ data.end_date # None
                 /\ now > data.end_date[1]
              THEN "finished" ELSE data.status]_vars

(* C13: the pick that takes the last entry off the draft queue also sets    *)
(* the phase to done: no saved record that holds picks has an empty queue   *)
(* and the phase draft.                                                     *)
C13_LastPickEndsDraft ==
    (data.all_picks # <<>> /\ data.draft_order = <<>>) => data.status # "draft"

Count(seq, x) == Cardinality({k \in 1..Len(seq) : seq[k] = x})

IsSnake(order, players, rounds) ==
    LET n == Len(players)
    IN /\ Len(order) = n * rounds
       /\ \A i \in 0..(rounds - 1), j \in 1..n :
             order[i * n + j] = IF i % 2 = 0 THEN players[j] ELSE players[n + 1 - j]
       /\ \A j \in 1..n : Count(order, players[j]) = rounds

(* C14: for N distinct players and R rounds the snake order has N*R         *)
(* entries, round i (from 0) is the player list forward when i is even and  *)
(* reversed when i is odd, and each player occurs exactly R times; the      *)
(* draft queue is this order when the game starts and is not computed again *)
(* while the draft runs (each pick takes one entry off).                    *)
C14_SnakeOrder ==
    /\ snake.order # None
          => IsSnake(snake.order[1], snake.players, snake.total_rounds)
    /\ data.status = "draft"
          => /\ data.all_picks = <<>>
                   => IsSnake(data.draft_order, snake.players, snake.total_rounds)
             /\ Len(data.draft_order) + Len(data.all_picks)
                   = Len(snake.players) * snake.total_rounds

C14_Witness ==
    /\ snake.order # None
    /\ Len(snake.players) = 3
    /\ snake.total_rounds = 5
    /\ data.status = "draft"
    /\ Len(data.all_picks) = 2

(* C15: within one game a milestone that has a winner keeps its winner and  *)
(* its value through every later read and operation: a milestone is         *)
(* resolved at most once.                                                   *)
C15_MilestoneResolvedOnce ==
    [][~ResetStep
        => \A i \in 1..Len(data.milestones) :
              data.milestones[i].winner # None
                 => /\ i <= Len(data'.milestones)
                    /\ data'.milestones[i] = data.milestones[i]]_vars

(* both milestones resolved, and the game read again at a later instant     *)
C15_Witness ==
    /\ Len(data.milestones) = 2
    /\ \A i \in 1..2 : data.milestones[i].winner # None
    /\ data.status = "finished"
    /\ now > data.milestones[2].time

Winners(d) == [i \in 1..Len(d.milestones) |-> d.milestones[i].winner]

(* C16: on a game read a player's leaderboard points are the mean percent   *)
(* change of the player's picks plus 5 for each milestone whose recorded    *)
(* winner is that player, computed from the record (nothing is carried over *)
(* from earlier reads); the leaderboard is in descending order of points    *)
(* and players with equal points keep the order of the pick lists.          *)
C16_LeaderboardPoints ==
    \A pa \in SUBSET KnownTickers :
        LET q == QuoteAt(pa, now)
            board == LeaderboardOf(data, q)
            keys == DictKeys(data.picks)
            at(i) == IndexOf(keys, board[i].name)
        IN /\ Len(board) = Len(keys)
           /\ \A i \in 1..Len(board) :
                 /\ at(i) # 0
                 /\ board[i].points
                       = calculate_points(data.picks[at(i)].v, q)
                           + 500 * Count(Winners(data), Some(board[i].name))
           /\ \A i, j \in 1..Len(board) :
                 i < j => \/ board[i].points > board[j].points
                          \/ /\ board[i].points = board[j].points
                             /\ at(i) < at(j)

(* each player has won one milestone (equal points when no price is to be   *)
(* had), and for some prices the second player leads                        *)
C16_Witness ==
    /\ Len(data.picks) = 2
    /\ \A i \in 1..2 : Count(Winners(data), Some(data.picks[i].k)) = 1
    /\ \E pa \in SUBSET KnownTickers :
          LeaderboardOf(data, QuoteAt(pa, now))[1].name = data.picks[2].k

Limited(answer) == answer.kind = "http" /\ answer.value = 429

Priced(answer) == answer.kind = "close" /\ answer.value # 0

(* C17: when the quote source is rate-limited on the first 4 calls and      *)
(* gives a price on the 5th, the fetch returns that price after exactly 5   *)
(* calls, having slept 10, 20, 40 and 80 seconds (150 in all); when every   *)
(* call is rate-limited it returns Unavailable after exactly 5 calls; it    *)
(* never makes a 6th call.                                                  *)
C17_RetryWithBackoff ==
    fetch.outcome # None =>
        LET answers == fetch.answers
            result == fetch.outcome[1]
        IN /\ result.calls <= 5
           /\ ((\A k \in 1..4 : Limited(answers[k])) /\ Priced(answers[5]))
                 => /\ result.info = Some([currentPrice |-> answers[5].value])
                    /\ result.calls = 5
                    /\ result.sleeps = <<10, 20, 40, 80>>
                    /\ SumSeq(result.sleeps) = 150
           /\ (\A k \in 1..Len(answers) : Limited(answers[k]))
                 => /\ result.info = None
                    /\ result.calls = 5

C17_Witness ==
    /\ fetch.outcome # None
    /\ \A k \in 1..4 : Limited(fetch.answers[k])
    /\ Priced(fetch.answers[5])
    /\ fetch.outcome[1].calls = 5

(* C18: only rate limiting is retried: when the first answer that is not a  *)
(* rate limit is an empty history, a missing price or another error, on     *)
(* whichever attempt, the fetch returns Unavailable at once, with no        *)
(* further call and no further sleep.                                       *)
C18_OnlyRateLimitRetried ==
    fetch.outcome # None =>
        \A k \in 1..5 :
            (/\ \A j \in 1..(k - 1) : Limited(fetch.answers[j])
             /\ ~Limited(fetch.answers[k])
             /\ ~Priced(fetch.answers[k]))
            => /\ fetch.outcome[1].info = None
               /\ fetch.outcome[1].calls = k
               /\ Len(fetch.outcome[1].sleeps) = k - 1

(* two rate limits, then an HTTP error that is not a rate limit *)
C18_Witness ==
    /\ fetch.outcome # None
    /\ Limited(fetch.answers[1])
    /\ Limited(fetch.answers[2])
    /\ fetch.answers[3] = [kind |-> "http", value |-> 500]
    /\ fetch.outcome[1].calls = 3

(* a price lookup was made in this step *)
LookedUp == lookup' # lookup \/ cache' # cache

(* C19: while an entry stored at T is younger than 21600 seconds, a lookup  *)
(* of its ticker in any letter case returns the stored price and does not   *)
(* call the quote source; from T + 21600 on, the lookup calls the source.   *)
C19_CacheFreshness ==
    [][LookedUp =>
          LET key == Upper(lookup'.ticker)
              entry == DictGet(cache, key)
          IN DictHas(cache, key) =>
                IF clock < entry.timestamp + 21600
                THEN /\ lookup'.calls = 0
                     /\ lookup'.price = Some(entry.info.currentPrice)
                ELSE lookup'.calls >= 1]_vars

(* a lower-case lookup served from an entry 21599 seconds old *)
C19_Witness ==
    /\ lookup.ticker = <<"a">>
    /\ lookup.calls = 0
    /\ lookup.price = Some(100)
    /\ DictHas(cache, <<"A">>)
    /\ lookup.at = DictGet(cache, <<"A">>).timestamp + 21599

(* C20: the cache changes only by a successful fetch, which sets the entry  *)
(* of the upper-cased ticker to the fetched price and the current time; a   *)
(* failed fetch and a lookup served from the cache leave it as it is; no    *)
(* entry is ever removed and no timestamp ever decreases.                   *)
C20_CacheWrittenBySuccessfulFetch ==
    [][/\ cache' # cache
            => /\ lookup'.calls >= 1
               /\ lookup'.price # Unavailable
               /\ cache' = DictSet(cache, Upper(lookup'.ticker),
                               [info |-> [currentPrice |-> lookup'.price[1]],
                                timestamp |-> clock'])
       /\ (LookedUp /\ (lookup'.calls = 0 \/ lookup'.price = Unavailable))
            => cache' = cache
       /\ \A i \in 1..Len(cache) :
             /\ DictHas(cache', cache[i].k)
             /\ DictGet(cache', cache[i].k).timestamp >= cache[i].v.timestamp]_vars

(* an entry overwritten by a fetch after its expiry *)
C20_Witness ==
    /\ DictHas(cache, <<"A">>)
    /\ DictGet(cache, <<"A">>) = [info |-> [currentPrice |-> 110],
                                  timestamp |-> cache_duration]
    /\ lookup = [ticker |-> <<"a">>, at |-> cache_duration, calls |-> 1,
                 price |-> Some(110)]

(* C21: a pick submitted with an empty ticker, a ticker already drafted or  *)
(* a ticker whose price cannot be resolved leaves the game record as it     *)
(* was: queue, registry, pick lists, picked lists and phase.                *)
C21_FailedPickChangesNothing ==
    [][data' # data
        => \A name \in DraftNames, raw \in RawTickers,
              current \in {Some(100), Unavailable} :
              (\/ CanonTicker(raw) = <<>>
               \/ CanonTicker(raw) \in Range(data.all_picks)
               \/ current = Unavailable)
              => ~DraftPost(name, raw, current)]_vars

(* a draft under way in which a ticker has been drafted and a player is on  *)
(* turn: each of the three failures can be submitted                        *)
C21_Witness ==
    /\ data.status = "draft"
    /\ data.all_picks = <<tickA>>
    /\ data.draft_order # <<>>

PlayerNames(d) == [i \in 1..Len(d.players) |-> d.players[i].name]

FormInvalid(form) ==
    \/ form.num_players < 2
    \/ form.num_players > 12
    \/ /\ form.time_frame = "Custom"
       /\ \/ form.custom_days = None
          \/ form.custom_days[1] < 30
          \/ form.custom_days[1] > 730
    \/ \E i \in 1..form.num_players : Strip(form.names[i]) = <<>>
    \/ \E i, j \in 1..form.num_players :
          i < j /\ Strip(form.names[i]) = Strip(form.names[j])

(* C22: /start with an empty player name, a player name that occurs twice   *)
(* after trimming, a player count outside 2..12 or a custom duration        *)
(* outside 30..730 days leaves the saved record as it was; so the players   *)
(* of every started game have non-empty, pairwise distinct names.           *)
C22_InvalidStartRejected ==
    /\ [](data.players # <<>>
            => /\ Len(data.players) >= 2 /\ Len(data.players) <= 12
               /\ \A i \in 1..Len(data.players) : data.players[i].name # <<>>
               /\ NoDup(PlayerNames(data)))
    /\ [][data' # data
            => \A form \in WideForms : FormInvalid(form) => ~Start(form)]_vars

(* a game of 12 players, and a draft of 3 players under way, from which     *)
(* the refused forms are submitted again                                    *)
C22_Witness ==
    /\ Len(data.players) = 3
    /\ data.status = "draft"
    /\ Len(data.all_picks) = 1

(* C23: /new_game appends one entry to the history exactly when the record  *)
(* it finds is finished, and always leaves the blank setup record; nothing  *)
(* else touches the history: its entries are never changed, removed or      *)
(* reordered, and the n-th entry has id n.                                  *)
C23_HistoryAppendOnly ==
    /\ [](\A n \in 1..Len(history) : history[n].id = n)
    /\ [][/\ Len(history') >= Len(history)
          /\ Len(history') <= Len(history) + 1
          /\ SubSeq(history', 1, Len(history)) = history
          /\ Len(history') = Len(history) + 1
                => /\ data.status = "finished"
                   /\ history'[Len(history')].picks = data.picks
          /\ (data.status = "finished" /\ data'.status = "setup")
                => Len(history') = Len(history) + 1
          /\ (data'.status = "setup" /\ data' # data) => data' = BlankRecord]_vars

(* two games archived, the second /new_game done *)
C23_Witness ==
    /\ Len(history) = 2
    /\ history[1].picks # history[2].picks
    /\ data = BlankRecord

(* C24: load, change and save are not serialized, and an update is lost:    *)
(* when a request saves a record that it loaded before another request      *)
(* saved, the saved record is the loaded one with this request's change     *)
(* alone; the other request's change is gone.                               *)
C24_LostUpdate ==
    \A q \in Callers :
        LET c == race.callers[q]
        IN (c.pc = "done" /\ c.wrote /\ c.stale /\ race.last = q)
              => data = Handled(c.op[1], race.orig[1], now)

(* two proposals by different players, both loaded before either was        *)
(* saved: one trade is on record, and one quota was charged                 *)
C24_Witness ==
    /\ \A p \in Callers : race.callers[p].pc = "done" /\ race.callers[p].wrote
    /\ \E p \in Callers : race.callers[p].stale
    /\ race.callers[1].op[1].kind = "propose"
    /\ race.callers[2].op[1].kind = "propose"
    /\ race.callers[1].op[1].name # race.callers[2].op[1].name
    /\ Len(data.trades) = 1

(* C25: cache writes for different tickers are independent: when two        *)
(* writes for different tickers have both been saved, in whatever order     *)
(* their loads and saves were taken, both entries are in the cache.         *)
C25_CacheWritesIndependent ==
    LET one == race.callers[1]
        two == race.callers[2]
    IN (/\ one.pc = "done" /\ two.pc = "done"
        /\ Upper(one.op[1].ticker) # Upper(two.op[1].ticker))
          => /\ DictHas(cache, Upper(one.op[1].ticker))
             /\ DictHas(cache, Upper(two.op[1].ticker))

(* both players of a two-player game hold their one pick *)
BothPicked(d) ==
    /\ Len(d.players) = 2
    /\ d.draft_order = <<>>
    /\ \A i \in 1..2 : Len(PicksOf(d, d.players[i].name)) = 1

(* C26: in a game of 2 players with 1 pick each, once both players have     *)
(* submitted valid picks the phase is done; once the clock is past the end  *)
(* date the next game read sets the phase to finished, and its leaderboard  *)
(* is not empty, so that its first entry is the winner.                     *)
C26_EndToEnd ==
    /\ [](BothPicked(data) => data.status \in {"done", "finished"})
    /\ [][(/\ GameStep
           /\ BothPicked(data)
           /\ data.end_date # None
           /\ now > data.end_date[1])
            => /\ data'.status = "finished"
               /\ \A pa \in SUBSET KnownTickers :
                     LeaderboardOf(data', QuoteAt(pa, now)) # <<>>]_vars

(* the picks of a list whose current price is available *)
Available(picks, q) == {i \in 1..Len(picks) : q[picks[i].ticker] # Unavailable}

RECURSIVE PriceProduct(_, _)
PriceProduct(picks, S) ==
    IF S = {} THEN 1
    ELSE LET i == CHOOSE i \in S : TRUE
         IN picks[i].price * PriceProduct(picks, S \ {i})

(* the sum over S of (current - price) / price * 100, in D-ths, where D is  *)
(* a multiple of every price                                                *)
RECURSIVE ChangeSum(_, _, _, _)
ChangeSum(picks, q, S, D) ==
    IF S = {} THEN 0
    ELSE LET i == CHOOSE i \in S : TRUE
         IN (q[picks[i].ticker][1] - picks[i].price) * 100 * (D \div picks[i].price)
              + ChangeSum(picks, q, S \ {i}, D)

Abs(x) == IF x < 0 THEN -x ELSE x

(* C27 as stated: the points of a list of picks are the arithmetic mean of  *)
(* the percent changes of the picks whose price is available, and 0 when    *)
(* there is none.  (Points are in hundredths of a percent.)                 *)
C27_PointsAreMean ==
    score.points # None =>
        \A i \in 1..Len(score.picks) :
            LET picks == score.picks[i].v
                S == Available(picks, score.q)
                D == PriceProduct(picks, S)
            IN IF S = {} THEN score.points[1][i] = 0
               ELSE score.points[1][i] * D * Cardinality(S)
                       = 100 * ChangeSum(picks, score.q, S, D)

(* C27 amended: the points of a list of picks are the arithmetic mean of    *)
(* the percent changes of the picks whose price is available, rounded to 2  *)
(* decimals (at most half a hundredth away from the mean), and 0 when there *)
(* is none; picks without a price count neither in the sum nor in the       *)
(* number of picks.                                                         *)
C27_PointsAreRoundedMean ==
    score.points # None =>
        \A i \in 1..Len(score.picks) :
            LET picks == score.picks[i].v
                S == Available(picks, score.q)
                D == PriceProduct(picks, S)
            IN IF S = {} THEN score.points[1][i] = 0
               ELSE 2 * Abs(score.points[1][i] * D * Cardinality(S)
                              - 100 * ChangeSum(picks, score.q, S, D))
                       <= D * Cardinality(S)

(* a player with one pick without a price and two with one (50 -> 60 and   *)
(* 30 -> 31), whose mean 11.666... is scored 11.67                           *)
C27_Witness ==
    /\ score.points # None
    /\ score.q = [ticker \in Range(ScoreTickers) |->
                     IF ticker = tickA THEN Unavailable
                     ELSE IF ticker = tickB THEN Some(60) ELSE Some(31)]
    /\ \E i \in 1..Len(score.picks) :
          /\ PickTickers(score.picks[i].v) = ScoreTickers
          /\ score.points[1][i] = 1167

(* C29: the lowest_volatility milestone goes to a player whose volatility   *)
(* is finite and no higher than any other player's; a player whose          *)
(* volatility is infinite (no pick gave a series) never wins; when no       *)
(* player has a finite volatility the winner stays null, so that the        *)
(* milestone is evaluated again by later reads.                             *)
C29_LowestVolatilityWinner ==
    score.vol # None =>
        LET m == score.vol[1]
            vol(i) == calculate_volatility(score.picks[i].v, score.hv)
            finite == {i \in 1..Len(score.picks) : vol(i).k = "fin"}
        IN /\ finite # {} =>
                \E i \in finite :
                    /\ m.winner = Some(score.picks[i].k)
                    /\ \A j \in finite : vol(i).n * vol(j).d <= vol(j).n * vol(i).d
           /\ finite = {} =>
                /\ m.winner = None
                /\ m.time = DueMilestone("lowest_volatility").time

(* the first player has no series at all, the second has, and wins *)
C29_Witness ==
    /\ score.vol # None
    /\ Len(score.picks) = 2
    /\ calculate_volatility(score.picks[1].v, score.hv) = InfR
    /\ score.vol[1].winner = Some(score.picks[2].k)

(* C30: the highest_gain milestone goes to the player who holds the pick    *)
(* with the highest percent gain of all picks, of all players, that have a  *)
(* current price (pick by pick, not by the mean of a player); picks without *)
(* a price are skipped, and when no pick has a price the winner stays null. *)
C30_HighestGainWinner ==
    score.gain # None =>
        LET priced == {e \in {<<i, j>> : i \in 1..Len(score.picks), j \in 1..3} :
                          /\ e[2] <= Len(score.picks[e[1]].v)
                          /\ score.q[score.picks[e[1]].v[e[2]].ticker] # Unavailable}
            pick(e) == score.picks[e[1]].v[e[2]]
            rise(e) == score.q[pick(e).ticker][1] - pick(e).price
        IN IF priced = {} THEN score.gain[1].winner = None
           ELSE \E e \in priced :
                   /\ score.gain[1].winner = Some(score.picks[e[1]].k)
                   /\ \A f \in priced :
                         rise(f) * pick(e).price <= rise(e) * pick(f).price

(* the winner holds the best pick (100 -> 110) and the worst (50 -> 45),    *)
(* mean 0, against a player whose one pick gained 3.33 percent              *)
C30_Witness ==
    /\ score.gain # None
    /\ Len(score.picks) = 2
    /\ score.q = [ticker \in Range(ScoreTickers) |->
                     IF ticker = tickA THEN Some(110)
                     ELSE IF ticker = tickB THEN Some(45) ELSE Some(31)]
    /\ \E i \in 1..2 :
          /\ PickTickers(score.picks[i].v) = <<tickA, tickB>>
          /\ score.gain[1].winner = Some(score.picks[i].k)

(* the pick of a list that has the ticker *)
PickOf(picks, ticker) == picks[IndexOf(PickTickers(picks), ticker)]

(* C28: a pick keeps its ticker, price and timestamp, and its holder unless *)
(* a trade is accepted: in every step of a game each player's pick list     *)
(* either stays as it is (a pick of the draft may be added at its end), or  *)
(* the step accepts a trade to which the player is party, and the player's  *)
(* list loses the pick given and gains the partner's pick, price and        *)
(* timestamp included.                                                      *)
C28_PicksImmutable ==
    [][~ResetStep =>
        \A i \in 1..Len(data.picks) :
            LET p == data.picks[i].k
                old == data.picks[i].v
                new == PicksOf(data', p)
            IN \/ /\ Len(new) \in {Len(old), Len(old) + 1}
                  /\ SubSeq(new, 1, Len(old)) = old
               \/ \E k \in 1..Len(data.trades) :
                     LET t == data.trades[k]
                         gives == IF p = t.from_player THEN t.offer_ticker
                                  ELSE t.request_ticker
                         takes == IF p = t.from_player THEN t.request_ticker
                                  ELSE t.offer_ticker
                         partner == IF p = t.from_player THEN t.to_player
                                    ELSE t.from_player
                     IN /\ Len(data'.trades) = Len(data.trades)
                        /\ data'.trades[k].status = "accepted"
                        /\ p \in {t.from_player, t.to_player}
                        /\ Holds(data, p, gives)
                        /\ Holds(data, partner, takes)
                        /\ Range(new)
                              = (Range(old) \ {PickOf(old, gives)})
                                  \cup {PickOf(PicksOf(data, partner), takes)}]_vars

(* after an accepted trade each party holds the other's pick as drafted *)
C28_Witness ==
    /\ \E k \in 1..Len(data.trades) : data.trades[k].status = "accepted"
    /\ \E p, r \in TradeParties :
          /\ p # r
          /\ [ticker |-> tickB, price |-> QuotePrice(tickB, 0), time |-> 0]
                \in Range(PicksOf(data, p))
          /\ [ticker |-> tickA, price |-> QuotePrice(tickA, 0), time |-> 0]
                \in Range(PicksOf(data, r))
          /\ \E j \in 1..Len(data.trades) :
                /\ data.trades[j].from_player = p
                /\ data.trades[j].status = "accepted"

(* C31: no milestone has a winner before its time: a milestone that has a   *)
(* winner has its time behind it, and a step (a game read included) made    *)
(* before the time of a milestone leaves its winner and value as they are.  *)
C31_NoEarlyMilestone ==
    /\ [](\A i \in 1..Len(data.milestones) :
            data.milestones[i].winner # None => now >= data.milestones[i].time)
    /\ [][~ResetStep
            => \A i \in 1..Len(data.milestones) :
                  now < data.milestones[i].time
                     => /\ i <= Len(data'.milestones)
                        /\ data'.milestones[i] = data.milestones[i]]_vars

(* the first milestone has its winner, the game has been read since, and    *)
(* the second, not yet due, has none                                        *)
C31_Witness ==
    /\ Len(data.milestones) = 2
    /\ data.milestones[1].winner # None
    /\ data.milestones[2].winner = None
    /\ now >= data.milestones[1].time
    /\ now < data.milestones[2].time

(* the days from a to b, both included, have a February 29 among them *)
ContainsLeapDay(a, b) ==
    \E y \in DateOf(a).year..DateOf(b).year :
        /\ IsLeap(y)
        /\ a \div 24 <= DateTime(y, 2, 29) \div 24
        /\ DateTime(y, 2, 29) \div 24 <= b \div 24

(* C32: under Calendar Year the end date is the start plus 366 days when    *)
(* the days from the start to the start plus 365 days have a February 29    *)
(* among them, and the start plus 365 days otherwise.                       *)
C32_CalendarYearLeapDay ==
    data.time_frame = Some("Calendar Year") =>
        LET start == data.start_date[1]
        IN data.end_date[1]
              = start + Days(IF ContainsLeapDay(start, start + Days(365))
                             THEN 366 ELSE 365)

(* C33: in every started game start <= milestone 1 <= milestone 2 <= end,   *)
(* milestone 1 is the start plus a third of the duration in whole days and  *)
(* milestone 2 the start plus two thirds.                                   *)
C33_MilestonesInOrder ==
    data.start_date # None =>
        LET start == data.start_date[1]
            end == data.end_date[1]
            duration == (end - start) \div 24
            m1 == data.milestones[1].time
            m2 == data.milestones[2].time
        IN /\ m1 = start + 24 * (duration \div 3)
           /\ m2 = start + 24 * ((2 * duration) \div 3)
           /\ start <= m1 /\ m1 <= m2 /\ m2 <= end

(* C34: in a started game every player's picks and the player's entries in  *)
(* the draft queue add up to the player's maximum; so no player holds more  *)
(* than the maximum, and with an empty queue each holds exactly the         *)
(* maximum, whatever trades were accepted.                                  *)
C34_PickCountConserved ==
    \A i \in 1..Len(data.players) :
        LET player == data.players[i]
            held == Len(PicksOf(data, player.name))
        IN /\ held + Count(data.draft_order, player.name) = player.max
           /\ held <= player.max
           /\ data.draft_order = <<>> => held = player.max

(* the draft is over, a trade has been accepted, and each player holds the  *)
(* one pick of the game                                                     *)
C34_Witness ==
    /\ Len(data.players) = 2
    /\ data.draft_order = <<>>
    /\ \E k \in 1..Len(data.trades) : data.trades[k].status = "accepted"
    /\ \A i \in 1..2 : Len(PicksOf(data, data.players[i].name)) = 1

(* C35: once the time is past the end date no trade is proposed or settled: *)
(* no step of the game adds a trade, lowers a quota, changes the status of  *)
(* a trade or moves a pick, in whatever phase the record is.                *)
C35_NoTradeAfterEnd ==
    [][(/\ data.end_date # None
        /\ now > data.end_date[1]
        /\ ~ResetStep)
          => /\ data'.trades = data.trades
             /\ data'.trade_limits = data.trade_limits
             /\ data'.picks = data.picks]_vars

(* C36: a pick changes the record only in the phase draft: a step taken in  *)
(* the phase setup, done or finished, unless it starts a game, records no   *)
(* pick and leaves the draft queue as it is.                                *)
C36_PickOnlyInDraft ==
    [][(data.status # "draft" /\ ~ResetStep)
          => /\ data'.all_picks = data.all_picks
             /\ data'.draft_order = data.draft_order
             /\ \A name \in DraftNames :
                   Len(PicksOf(data', name)) = Len(PicksOf(data, name))]_vars

(* C37: the leaderboard and the winner that a new game archives for a       *)
(* finished game are those of the game read at the same prices: the same    *)
(* players in the same order with the same points (mean percent change plus *)
(* 5 for each milestone won), and the first of them as the winner.          *)
C37_ArchiveMatchesLeaderboard ==
    [][Len(history') > Len(history)
        => \E pa \in SUBSET KnownTickers :
              LET board == LeaderboardOf(data, QuoteAt(pa, now))
                  archived == history'[Len(history')]
              IN /\ Len(archived.leaderboard) = Len(board)
                 /\ \A i \in 1..Len(board) :
                       /\ archived.leaderboard[i].name = board[i].name
                       /\ archived.leaderboard[i].points = board[i].points
                 /\ archived.winner
                       = IF board # <<>> THEN Some(board[1].name) ELSE None]_vars

(* C38: a price lookup never returns a stale price: a price returned is     *)
(* that of the cache entry of the ticker, and the entry either was younger  *)
(* than 21600 seconds when it was read or was written by the fetch of this  *)
(* lookup, with the price the source had then; a lookup that finds no entry *)
(* or an expired one and whose fetch fails returns Unavailable.             *)
C38_NoStalePrice ==
    /\ [](lookup.price # Unavailable =>
            LET key == Upper(lookup.ticker)
                entry == DictGet(cache, key)
            IN /\ DictHas(cache, key)
               /\ entry.info.currentPrice = lookup.price[1]
               /\ IF lookup.calls = 0
                  THEN /\ entry.timestamp <= lookup.at
                       /\ lookup.at - entry.timestamp < 21600
                  ELSE /\ entry.timestamp >= lookup.at
                       /\ lookup.price[1] = SourceClose(lookup.at))
    /\ [][(/\ LookedUp
           /\ cache' = cache
           /\ LET key == Upper(lookup'.ticker)
              IN \/ ~DictHas(cache, key)
                 \/ clock - DictGet(cache, key).timestamp >= 21600)
            => lookup'.price = Unavailable]_vars

(* an entry past its 21600 seconds, a failed fetch, and no price *)
C38_Witness ==
    /\ lookup.price = Unavailable
    /\ lookup.calls >= 1
    /\ DictHas(cache, Upper(lookup.ticker))
    /\ lookup.at - DictGet(cache, Upper(lookup.ticker)).timestamp >= 21600

(* C39: whatever the interleaving of loads and saves, every saved record is *)
(* consistent in itself: no ticker is drafted twice, every player's picked  *)
(* list is the list of the tickers of the player's picks, and the picks a   *)
(* player holds and the player's entries in the draft queue add up to the   *)
(* player's maximum.                                                        *)
C39_SavedRecordConsistent ==
    /\ NoDup(Canon(data.all_picks)) /\ NoDup(Canon(HeldTickers(data)))
    /\ \A i \in 1..Len(data.players) :
          LET player == data.players[i]
              picks == PicksOf(data, player.name)
          IN /\ player.picked = PickTickers(picks)
             /\ Len(picks) + Count(data.draft_order, player.name) = player.max

(* an update was lost (the record was saved from a copy loaded before the   *)
(* save of another request), and picks have been swapped                    *)
C39_Witness ==
    /\ \E p \in Callers :
          /\ race.callers[p].pc = "done"
          /\ race.callers[p].wrote
          /\ race.callers[p].stale
    /\ Holds(data, ann, tickB)
    /\ Holds(data, bob, tickA)

====
